---- MODULE Spec2Model ----
(***************************************************************************)
(* A model of id-photo-ocr-uploader.  The backend: the upload handler with *)
(* its HEIC conversion and OCR client, the OCR reply normalisation, the    *)
(* save controller with the IDData mongoose schema, and the global error   *)
(* handler.  The frontend: the UploadPanel and DataForm components as App  *)
(* wires them.  JavaScript strings are TLA+ strings (TLC evaluates Len,    *)
(* SubSeq and \o on them), so string handling is computed, not assumed.    *)
(***************************************************************************)
EXTENDS Integers, Sequences, FiniteSets, TLC

VARIABLES
    normData,     \* normalizeExtractedData: the parsed reply object (its argument)
    normalized,   \* normalizeExtractedData: the object it returns
    normPc,       \* "input" before the call, "done" after it
    pc,           \* where the current HTTP request is in the express pipeline
    reqNo,        \* the number of requests received so far
    req,          \* the upload request as the client sent it
    reqFile,      \* req.file as multer left it (NoFile when none is attached)
    apiCall,      \* what anthropic.messages.create did for the current request
    disk,         \* the paths that exist in the uploads directory
    created,      \* the paths written to disk for the current request
    log,          \* the calls made while handling the current request, in order
    body,         \* req.body of the current save request
    dbFault,      \* what the database did with the current request's insert
    db,           \* the IDData collection: the stored documents, oldest first
    query,        \* the route, req.params.id and req.query of the current GET request
    reported,     \* for each _id, the body saved under it and the extractedData its save response reported
    nodeEnv,      \* process.env.NODE_ENV
    err,          \* the error passed to next(), NoError when none
    res,          \* the HTTP response sent, NoResponse when none yet
    selectedFile, \* UploadPanel: the file chosen for upload, NoPick (null) when none
    uploadProgress, \* UploadPanel: the percentage the progress bar shows
    uploadStatus, \* UploadPanel: 'idle', 'uploading', 'success' or 'error'
    progressIntervals, \* UploadPanel: the uploads whose progress timer is still set
    uploads,      \* UploadPanel: the handleUpload calls so far, each with its position and callbacks
    dropped,      \* UploadPanel: the file the user offered last, NoPick before the first
    dropError,    \* UploadPanel: the message onError got for that file, "" when it was not called
    formValues,   \* DataForm: the values of the form's fields
    initialData,  \* DataForm: the initialData prop (App's extractedData), NoData when null
    isReadonly,   \* DataForm: the isReadonly state
    isSaving,     \* DataForm: the isSaving state
    hasChanges,   \* DataForm: the hasChanges state
    saveFetches,  \* DataForm: the bodies of the POSTs to /api/id/save not answered yet
    posts,        \* DataForm: the number of POSTs to /api/id/save issued since the page loaded
    savedSince    \* DataForm: a save has succeeded and no upload has delivered data since

normVars == <<normData, normalized, normPc>>

panelVars == <<selectedFile, uploadProgress, uploadStatus, progressIntervals, uploads, dropped,
               dropError>>

formVars == <<formValues, initialData, isReadonly, isSaving, hasChanges, saveFetches, posts,
              savedSince>>

uiVars == <<panelVars, formVars>>

httpVars == <<pc, reqNo, err, res, nodeEnv>>

uploadVars == <<req, reqFile, apiCall, disk, created, log>>

saveVars == <<body, dbFault, db, query, reported>>

vars == <<normData, normalized, normPc, pc, reqNo, req, reqFile, apiCall, disk, created, log,
          body, dbFault, db, query, reported, nodeEnv, err, res,
          selectedFile, uploadProgress, uploadStatus, progressIntervals, uploads, dropped,
          dropError, formValues, initialData, isReadonly, isSaving, hasChanges, saveFetches,
          posts, savedSince>>

(***************************************************************************)
(* JavaScript strings                                                      *)
(***************************************************************************)
Ch(s, i) == SubSeq(s, i, i)

UpperLetters == "ABCDEFGHIJKLMNOPQRSTUVWXYZ"

LowerLetters == "abcdefghijklmnopqrstuvwxyz"

Digits == "0123456789"

\* s contains the one-character string c
HasChar(s, c) == \E i \in 1..Len(s) : Ch(s, i) = c

IsSpace(c) == c \in {" ", "\t", "\n"}

DigitChars == {Ch(Digits, i) : i \in 1..Len(Digits)}

IsDigit(c) == c \in DigitChars

\* the letter pairs of toLowerCase / toUpperCase, keyed by the letter to convert
LowerOf == [c \in {Ch(UpperLetters, i) : i \in 1..26} |->
               Ch(LowerLetters, CHOOSE i \in 1..26 : Ch(UpperLetters, i) = c)]

UpperOf == [c \in {Ch(LowerLetters, i) : i \in 1..26} |->
               Ch(UpperLetters, CHOOSE i \in 1..26 : Ch(LowerLetters, i) = c)]

IsUpper(c) == c \in DOMAIN LowerOf

LowerChar(c) == IF c \in DOMAIN LowerOf THEN LowerOf[c] ELSE c

UpperChar(c) == IF c \in DOMAIN UpperOf THEN UpperOf[c] ELSE c

RECURSIVE ToLowerCase(_)
ToLowerCase(s) == IF s = "" THEN "" ELSE LowerChar(Ch(s, 1)) \o ToLowerCase(SubSeq(s, 2, Len(s)))

RECURSIVE ToUpperCase(_)
ToUpperCase(s) == IF s = "" THEN "" ELSE UpperChar(Ch(s, 1)) \o ToUpperCase(SubSeq(s, 2, Len(s)))

RECURSIVE TrimStart(_)
TrimStart(s) == IF s # "" /\ IsSpace(Ch(s, 1)) THEN TrimStart(SubSeq(s, 2, Len(s))) ELSE s

RECURSIVE TrimEnd(_)
TrimEnd(s) == IF s # "" /\ IsSpace(Ch(s, Len(s))) THEN TrimEnd(SubSeq(s, 1, Len(s) - 1)) ELSE s

\* String.prototype.trim
Trim(s) == TrimEnd(TrimStart(s))

\* String.prototype.startsWith
StartsWith(s, p) == Len(s) >= Len(p) /\ SubSeq(s, 1, Len(p)) = p

\* String.prototype.includes
Includes(s, w) == \E i \in 1..(Len(s) - Len(w) + 1) : SubSeq(s, i, i + Len(w) - 1) = w

\* s.substring(0, n)
Substring0(s, n) == IF Len(s) <= n THEN s ELSE SubSeq(s, 1, n)

\* s.replace(/\s+/g, '_'): every maximal run of whitespace becomes one '_'
RECURSIVE ReplaceSpaceRuns(_)
ReplaceSpaceRuns(s) ==
    IF s = "" THEN ""
    ELSE IF IsSpace(Ch(s, 1))
         THEN "_" \o ReplaceSpaceRuns(TrimStart(s))
         ELSE Ch(s, 1) \o ReplaceSpaceRuns(SubSeq(s, 2, Len(s)))

\* s.replace(/\D/g, ''): every non-digit is dropped
RECURSIVE RemoveNonDigits(_)
RemoveNonDigits(s) ==
    IF s = "" THEN ""
    ELSE (IF IsDigit(Ch(s, 1)) THEN Ch(s, 1) ELSE "") \o RemoveNonDigits(SubSeq(s, 2, Len(s)))

(***************************************************************************)
(* JavaScript values, as JSON.parse and a request body deliver them        *)
(***************************************************************************)
Str(s) == [t |-> "string", s |-> s, n |-> 0]

Num(n) == [t |-> "number", s |-> "", n |-> n]

Null == [t |-> "null", s |-> "", n |-> 0]

Undefined == [t |-> "undefined", s |-> "", n |-> 0]

Bool(b) == [t |-> "boolean", s |-> "", n |-> IF b THEN 1 ELSE 0]

\* a Date, as its time value
Date(time) == [t |-> "date", s |-> "", n |-> time]

\* an object held as a value, its content left out
ObjectValue == [t |-> "object", s |-> "", n |-> 0]

\* the truthiness test of `if (x)`
Truthy(v) ==
    CASE v.t = "string" -> v.s # ""
      [] v.t \in {"number", "boolean"} -> v.n # 0
      [] v.t \in {"object", "date"} -> TRUE
      [] OTHER -> FALSE

RECURSIVE NatToString(_)
NatToString(n) == IF n < 10 THEN Ch(Digits, n + 1) ELSE NatToString(n \div 10) \o Ch(Digits, (n % 10) + 1)

\* String(v) of a value that JSON.parse or a request body delivers
ToStr(v) ==
    CASE v.t = "string" -> v.s
      [] v.t = "number" -> IF v.n < 0 THEN "-" \o NatToString(-v.n) ELSE NatToString(v.n)
      [] v.t = "null" -> "null"
      [] v.t = "boolean" -> IF v.n = 1 THEN "true" ELSE "false"
      [] v.t = "object" -> "[object Object]"
      [] OTHER -> "undefined"

\* o[k] of an object held as a function from its own keys
Get(o, k) == IF k \in DOMAIN o THEN o[k] ELSE Undefined

\* o[k] = v
Put(o, k, v) == [x \in (DOMAIN o) \cup {k} |-> IF x = k THEN v ELSE o[x]]

EmptyObject == [x \in {} |-> Undefined]

(***************************************************************************)
(* AnthropicService.normalizeExtractedData                                 *)
(***************************************************************************)
fieldMappings ==
    [ id |-> "id", id_number |-> "id", identification |-> "id", license |-> "id",
      last_name |-> "lastName", surname |-> "lastName", family_name |-> "lastName",
      first_name |-> "firstName", given_name |-> "firstName",
      middle_initial |-> "middleInitial", middle_name |-> "middleInitial",
      address_street |-> "addressStreet", street |-> "addressStreet", address |-> "addressStreet",
      address_city |-> "addressCity", city |-> "addressCity",
      address_state |-> "addressState", state |-> "addressState",
      address_zip |-> "addressZip", zip |-> "addressZip", zipcode |-> "addressZip",
      postal_code |-> "addressZip",
      sex |-> "sex", gender |-> "sex",
      dob |-> "dob", date_of_birth |-> "dob", birth_date |-> "dob" ]

\* the lookup with the key as it is written
LookupKeyExact(key) == key

\* key.toLowerCase().replace(/\s+/g, '_')
LookupKey(key) == ReplaceSpaceRuns(ToLowerCase(key))

\* the cleanup with the sex test on the value's own letter case
CleanValueCaseSensitive(normalizedKey, value) ==
    CASE normalizedKey = "middleInitial" -> Substring0(ToUpperCase(value), 1)
      [] normalizedKey = "sex" -> IF StartsWith(value, "m") THEN "M" ELSE "F"
      [] normalizedKey = "addressZip" -> Substring0(RemoveNonDigits(value), 5)
      [] OTHER -> value

\* the cleanup with the ZIP code's digits left at their full length
CleanValueUntruncated(normalizedKey, value) ==
    CASE normalizedKey = "middleInitial" -> Substring0(ToUpperCase(value), 1)
      [] normalizedKey = "sex" -> IF StartsWith(ToLowerCase(value), "m") THEN "M" ELSE "F"
      [] normalizedKey = "addressZip" -> RemoveNonDigits(value)
      [] OTHER -> value

\* the per-field cleanup of a trimmed value
CleanValue(normalizedKey, value) ==
    CASE normalizedKey = "middleInitial" -> Substring0(ToUpperCase(value), 1)
      [] normalizedKey = "sex" -> IF StartsWith(ToLowerCase(value), "m") THEN "M" ELSE "F"
      [] normalizedKey = "addressZip" -> Substring0(RemoveNonDigits(value), 5)
      [] OTHER -> value

\* One turn of the forEach over Object.keys(data); data is the sequence of
\* the object's own entries [k, v] in insertion order.
NormalizeEntry(acc, entry) ==
    LET lookup == LookupKey(entry.k) IN
    IF lookup \in DOMAIN fieldMappings /\ Truthy(entry.v)
    THEN LET normalizedKey == fieldMappings[lookup]
         IN  Put(acc, normalizedKey, CleanValue(normalizedKey, Trim(ToStr(entry.v))))
    ELSE acc

RECURSIVE NormalizeFrom(_, _, _)
NormalizeFrom(data, i, acc) ==
    IF i > Len(data) THEN acc ELSE NormalizeFrom(data, i + 1, NormalizeEntry(acc, data[i]))

normalizeExtractedData(data) == NormalizeFrom(data, 1, EmptyObject)

(***************************************************************************)
(* middleware/errorHandler: createError and errorHandler                   *)
(***************************************************************************)
\* errors: the messages of a mongoose ValidationError's errors, in path order
NoError == [name |-> "", message |-> "", statusCode |-> Undefined, status |-> Undefined,
            code |-> Undefined, errors |-> <<>>]

\* new Error(message), possibly of a subclass that only sets its name
NewError(name, message) == [NoError EXCEPT !.name = name, !.message = message]

\* an error made without its status code
createErrorNoStatus(message, statusCode) ==
    [ name |-> "Error", message |-> message, statusCode |-> Undefined, status |-> Str("error"),
      code |-> Undefined, errors |-> <<>> ]

createError(message, statusCode) ==
    [ name |-> "Error", message |-> message, statusCode |-> Num(statusCode),
      status |-> Str(IF StartsWith(NatToString(statusCode), "4") THEN "fail" ELSE "error"),
      code |-> Undefined, errors |-> <<>> ]

\* errorKeys: the keys of the body's error object
NoResponse ==
    [status |-> 0, success |-> FALSE, message |-> "", data |-> EmptyObject, errorKeys |-> {}]

\* errorHandler with the stack and the details in every answer
errorHandlerWithStack(e) ==
    [ status |-> IF Truthy(e.statusCode) THEN e.statusCode.n ELSE 500, success |-> FALSE,
      message |-> IF e.message # "" THEN e.message ELSE "Internal Server Error",
      data |-> EmptyObject, errorKeys |-> {"message", "stack", "details"} ]

\* The status and message errorHandler answers with: the defaults, then the
\* multer, validation and Anthropic overrides in the order of the code.
errorHandler(e) ==
    LET statusCode0 == IF Truthy(e.statusCode) THEN e.statusCode.n ELSE 500
        message0 == IF e.message # "" THEN e.message ELSE "Internal Server Error"
        multer == IF e.name # "MulterError" THEN [statusCode |-> statusCode0, message |-> message0]
                  ELSE IF Includes(e.message, "File too large")
                       THEN [statusCode |-> 413, message |-> "File too large. Maximum size is 10MB."]
                  ELSE IF Includes(e.message, "Unexpected field")
                       THEN [statusCode |-> 400, message |-> "Invalid file field name."]
                  ELSE [statusCode |-> 400, message |-> "File upload error: " \o e.message]
        validation == IF e.name = "ValidationError"
                      THEN [statusCode |-> 400, message |-> "Validation Error: " \o e.message]
                      ELSE multer
        anthropic == IF Includes(e.message, "Anthropic")
                     THEN [statusCode |-> 503,
                           message |-> "OCR service temporarily unavailable. Please try again later."]
                     ELSE validation
    IN  [status |-> anthropic.statusCode, success |-> FALSE, message |-> anthropic.message,
         data |-> EmptyObject,
         errorKeys |-> IF nodeEnv = "development" THEN {"message", "stack", "details"}
                       ELSE {"message"}]

\* req.params.id and req.query of a GET request of the route; Undefined for
\* what the request leaves out
NoQuery == [route |-> "", id |-> Undefined, q |-> Undefined, page |-> Undefined, limit |-> Undefined]

(***************************************************************************)
(* JSON.parse, for the reply texts of this model: objects whose members    *)
(* are strings without escapes, unsigned integers, null or objects.        *)
(***************************************************************************)
\* s[i], "" past either end
At(s, i) == IF i \in 1..Len(s) THEN SubSeq(s, i, i) ELSE ""

RECURSIVE SkipWs(_, _)
SkipWs(s, i) == IF IsSpace(At(s, i)) THEN SkipWs(s, i + 1) ELSE i

\* the least index >= i holding c, 0 when there is none
RECURSIVE IndexFrom(_, _, _)
IndexFrom(s, c, i) == IF i > Len(s) THEN 0 ELSE IF Ch(s, i) = c THEN i ELSE IndexFrom(s, c, i + 1)

\* the greatest index holding c, 0 when there is none
RECURSIVE LastIndexFrom(_, _, _)
LastIndexFrom(s, c, i) == IF i < 1 THEN 0 ELSE IF Ch(s, i) = c THEN i ELSE LastIndexFrom(s, c, i - 1)

LastIndexOf(s, c) == LastIndexFrom(s, c, Len(s))

RECURSIVE DigitsEnd(_, _)
DigitsEnd(s, i) == IF IsDigit(At(s, i)) THEN DigitsEnd(s, i + 1) ELSE i

RECURSIVE StringToNat(_)
StringToNat(s) ==
    IF s = "" THEN 0
    ELSE 10 * StringToNat(SubSeq(s, 1, Len(s) - 1))
         + (CHOOSE d \in 0..9 : Ch(Digits, d + 1) = Ch(s, Len(s)))

ParseFail == [ok |-> FALSE, next |-> 0, val |-> Undefined, entries |-> <<>>]

ParseStringAt(s, i) ==
    LET close == IndexFrom(s, "\"", i + 1) IN
    IF At(s, i) # "\"" \/ close = 0 THEN ParseFail
    ELSE [ParseFail EXCEPT !.ok = TRUE, !.next = close + 1, !.val = Str(SubSeq(s, i + 1, close - 1))]

\* obj[k] = v while parsing: a repeated key keeps its place and takes the later value
SetEntry(entries, k, v) ==
    IF \E i \in 1..Len(entries) : entries[i].k = k
    THEN [i \in 1..Len(entries) |-> IF entries[i].k = k THEN [k |-> k, v |-> v] ELSE entries[i]]
    ELSE Append(entries, [k |-> k, v |-> v])

RECURSIVE ParseValueAt(_, _)
RECURSIVE ParseMembers(_, _, _)

ParseObjectAt(s, i) ==
    LET j == SkipWs(s, i + 1) IN
    IF At(s, i) # "{" THEN ParseFail
    ELSE IF At(s, j) = "}" THEN [ParseFail EXCEPT !.ok = TRUE, !.next = j + 1, !.val = ObjectValue]
    ELSE ParseMembers(s, j, <<>>)

ParseValueAt(s, i) ==
    CASE At(s, i) = "\"" -> ParseStringAt(s, i)
      [] At(s, i) = "{" -> [ParseObjectAt(s, i) EXCEPT !.entries = <<>>]
      [] IsDigit(At(s, i)) ->
            IF At(s, i) = "0" /\ IsDigit(At(s, i + 1)) THEN ParseFail
            ELSE [ParseFail EXCEPT !.ok = TRUE, !.next = DigitsEnd(s, i),
                                   !.val = Num(StringToNat(SubSeq(s, i, DigitsEnd(s, i) - 1)))]
      [] i + 3 <= Len(s) /\ SubSeq(s, i, i + 3) = "null" ->
            [ParseFail EXCEPT !.ok = TRUE, !.next = i + 4, !.val = Null]
      [] OTHER -> ParseFail

ParseMembers(s, i, acc) ==
    LET key == ParseStringAt(s, i)
        colon == SkipWs(s, key.next)
        value == ParseValueAt(s, SkipWs(s, colon + 1))
        after == SkipWs(s, value.next)
        entries == SetEntry(acc, key.val.s, value.val)
    IN  IF ~key.ok \/ At(s, colon) # ":" THEN ParseFail
        ELSE IF ~value.ok THEN ParseFail
        ELSE IF At(s, after) = "," THEN ParseMembers(s, SkipWs(s, after + 1), entries)
        ELSE IF At(s, after) = "}"
             THEN [ok |-> TRUE, next |-> after + 1, val |-> ObjectValue, entries |-> entries]
        ELSE ParseFail

\* JSON.parse of a text that starts with '{': ok, and the object's own
\* entries in insertion order
JSONparse(s) ==
    LET r == ParseObjectAt(s, 1) IN
    IF r.ok /\ SkipWs(s, r.next) = Len(s) + 1 THEN r ELSE ParseFail

\* text.match(/\{[\s\S]*\}/): from the first '{' to the last '}' after it;
\* "" stands for null (a match is never empty)
jsonMatch(text) ==
    LET open == IndexFrom(text, "{", 1)
        close == LastIndexOf(text, "}")
    IN  IF open = 0 \/ close < open THEN "" ELSE SubSeq(text, open, close)

(***************************************************************************)
(* AnthropicService.extractTextFromImage                                   *)
(***************************************************************************)
\* getMediaType with a media type for every extension
getMediaTypeAny(imagePath) == "image/jpeg"

\* imagePath.toLowerCase().split('.').pop(), then the switch; "" stands for null
getMediaType(imagePath) ==
    LET lower == ToLowerCase(imagePath)
        ext == SubSeq(lower, LastIndexOf(lower, ".") + 1, Len(lower))
    IN  CASE ext \in {"jpg", "jpeg"} -> "image/jpeg"
          [] ext = "png" -> "image/png"
          [] ext = "webp" -> "image/webp"
          [] OTHER -> ""

\* What anthropic.messages.create can do: reject with an HTTP error of the
\* upstream service, reject without one, or resolve with a reply.
NoCall == [kind |-> "none", status |-> 0, message |-> "", blockType |-> "", text |-> ""]

ApiHttpError(status, detail) ==
    [NoCall EXCEPT !.kind = "http", !.status = status,
                   !.message = NatToString(status) \o " " \o detail]

ApiConnectionError == [NoCall EXCEPT !.kind = "connection", !.message = "Connection error."]

\* blockType "" is a reply whose content array is empty
ApiReply(blockType, text) == [NoCall EXCEPT !.kind = "reply", !.blockType = blockType, !.text = text]

MaxReplyTokens == 4

ReplyTokens ==
    { "{", "}", "\"surname\": \"Smith\"", ", \"Gender\": \"female\"", "Extracted data: " }

\* the texts made of at most n tokens
RECURSIVE TokenTexts(_)
TokenTexts(n) ==
    IF n = 0 THEN {""}
    ELSE TokenTexts(n - 1) \cup {t \o tok : t \in TokenTexts(n - 1), tok \in ReplyTokens}

ReplyTexts == TokenTexts(MaxReplyTokens)

UpstreamStatuses == {400, 401, 403, 429, 500, 529}

UpstreamDetails == {"upstream error", "credit balance too low to access the Anthropic API"}

ApiReplies ==
    {ApiReply("", ""), ApiReply("tool_use", "")} \cup {ApiReply("text", t) : t \in ReplyTexts}

ApiOutcomes ==
    {ApiHttpError(s, d) : s \in UpstreamStatuses, d \in UpstreamDetails}
    \cup {ApiConnectionError} \cup ApiReplies

\* the error the SDK rejects with
ApiError(api) ==
    IF api.kind = "http"
    THEN [NewError("Error", api.message) EXCEPT !.status = Num(api.status)]
    ELSE NewError("Error", api.message)

\* the error thrown by the fs call on a path that does not exist
FsError(path) ==
    [NewError("Error", "ENOENT: no such file or directory, open '" \o path \o "'")
        EXCEPT !.code = Str("ENOENT")]

\* the catch block with every other error answered as unavailable
ocrCatchWrapsAll(error) ==
    IF error.status = Num(401) THEN createError("Invalid Anthropic API key", 500)
    ELSE IF error.status = Num(429)
         THEN createError("OCR service rate limit exceeded. Please try again later.", 503)
    ELSE createError("OCR service temporarily unavailable", 503)

\* the catch block of extractTextFromImage
ocrCatch(error) ==
    IF error.status = Num(401) THEN createError("Invalid Anthropic API key", 500)
    ELSE IF error.status = Num(429)
         THEN createError("OCR service rate limit exceeded. Please try again later.", 503)
    ELSE IF error.status = Num(500) THEN createError("OCR service temporarily unavailable", 503)
    ELSE error

\* whether the try block gets as far as anthropic.messages.create
ocrCallsApi(fileExists, imagePath) == fileExists /\ getMediaType(imagePath) # ""

\* the try block after a reply has arrived: [ok, data, err]
ocrParseReply(api) ==
    LET thrown(error) == [ok |-> FALSE, err |-> error, data |-> EmptyObject]
        match == jsonMatch(api.text)
        parsed == JSONparse(match)
    IN  IF api.blockType = ""
        THEN thrown(NewError("TypeError", "Cannot read properties of undefined (reading 'type')"))
        ELSE IF api.blockType # "text"
        THEN thrown(createError("Invalid response format from OCR service", 500))
        ELSE IF match = "" THEN thrown(createError("Could not parse OCR response", 500))
        ELSE IF ~parsed.ok THEN thrown(createError("Failed to parse OCR JSON response", 500))
        ELSE [ok |-> TRUE, err |-> NoError, data |-> normalizeExtractedData(parsed.entries)]

\* ocrParseReply of every reply of the model, evaluated once
ocrReplyTable == [api \in ApiReplies |-> ocrParseReply(api)]

\* the try block: [ok, data, err], err being what it throws
ocrTry(fileExists, imagePath, api) ==
    LET thrown(error) == [ok |-> FALSE, err |-> error, data |-> EmptyObject] IN
    IF ~fileExists THEN thrown(FsError(imagePath))
    ELSE IF getMediaType(imagePath) = ""
    THEN thrown(createError("Unsupported file format for OCR", 400))
    ELSE IF api.kind # "reply" THEN thrown(ApiError(api))
    ELSE ocrReplyTable[api]

\* extractTextFromImage: [ok, data, err]
extractTextFromImage(fileExists, imagePath, api) ==
    LET tried == ocrTry(fileExists, imagePath, api) IN
    IF tried.ok THEN tried ELSE [tried EXCEPT !.err = ocrCatch(tried.err)]

(***************************************************************************)
(* HeicConversionService                                                   *)
(***************************************************************************)
\* path.join(parsedPath.dir, `${parsedPath.name}.jpg`): the extension of the
\* base name, if it has one, is replaced by .jpg
jpegPathOf(heicPath) ==
    LET dot == LastIndexOf(heicPath, ".")
        slash == LastIndexOf(heicPath, "/")
    IN  (IF dot > slash + 1 THEN SubSeq(heicPath, 1, dot - 1) ELSE heicPath) \o ".jpg"

\* convertHeicToJpeg on the files `files`; decodes tells whether heic-convert
\* accepts the file's bytes: [ok, path, disk, written, err]
convertHeicToJpeg(files, heicPath, decodes) ==
    LET failed(cause) ==
            [ok |-> FALSE, path |-> heicPath, disk |-> files, written |-> {},
             err |-> NewError("Error", "Failed to convert HEIC file: " \o cause)]
    IN  IF heicPath \notin files THEN failed(FsError(heicPath).message)
        ELSE IF ~decodes THEN failed("input buffer is not a HEIC image")
        ELSE [ok |-> TRUE, path |-> jpegPathOf(heicPath),
              disk |-> (files \cup {jpegPathOf(heicPath)}) \ {heicPath},
              written |-> {jpegPathOf(heicPath)}, err |-> NoError]

(***************************************************************************)
(* middleware/uploadMiddleware: upload.single('idImage')                   *)
(***************************************************************************)
allowedTypes == {"image/jpeg", "image/jpg", "image/png", "application/pdf", "image/heic"}

MaxFileSize == 10485760

NoFile == [path |-> "", originalname |-> "", mimetype |-> "", size |-> 0]

\* path.extname(originalname)
extname(name) ==
    LET dot == LastIndexOf(name, ".") IN
    IF dot > 1 THEN SubSeq(name, dot, Len(name)) ELSE ""

\* the storage's destination and filename; the unique suffix of a request is its number
storagePath(n, originalname) == "uploads/id-" \o NatToString(n) \o extname(originalname)

MaxRequests == 2

UploadNames == {"id.jpg", "scan.pdf", "photo.heic"}

UploadMimes == {"image/jpeg", "application/pdf", "image/heic", "image/gif"}

\* the multipart request: field "" when it carries no file part
NoRequest == [field |-> "", originalname |-> "", mimetype |-> "", size |-> 0]

UploadRequests ==
    {NoRequest}
    \cup [field : {"idImage"}, originalname : UploadNames, mimetype : UploadMimes, size : {2048}]
    \cup { [field |-> "photo", originalname |-> "id.jpg", mimetype |-> "image/jpeg", size |-> 2048],
           [field |-> "idImage", originalname |-> "id.jpg", mimetype |-> "image/jpeg",
            size |-> MaxFileSize + 1] }

\* upload.single('idImage') on request r, the n-th: the part's field name is
\* checked, then fileFilter, then the file is stored unless it exceeds
\* limits.fileSize (multer removes what it stored of it): [file, err]
uploadSingle(r, n) ==
    IF r.field = "" THEN [file |-> NoFile, err |-> NoError]
    ELSE IF r.field # "idImage"
    THEN [file |-> NoFile, err |-> NewError("MulterError", "Unexpected field")]
    ELSE IF r.mimetype \notin allowedTypes
    THEN [file |-> NoFile,
          err |-> NewError("Error", "Invalid file type. Allowed types: JPG, PNG, PDF, HEIC")]
    ELSE IF r.size > MaxFileSize
    THEN [file |-> NoFile, err |-> NewError("MulterError", "File too large")]
    ELSE [file |-> [path |-> storagePath(n, r.originalname), originalname |-> r.originalname,
                    mimetype |-> r.mimetype, size |-> r.size],
          err |-> NoError]

\* A request arrives at POST /api/id/upload and passes upload.single.
UploadSingle ==
    /\ pc = "idle"
    /\ reqNo < MaxRequests
    /\ reqNo' = reqNo + 1
    /\ \E r \in UploadRequests :
         LET m == uploadSingle(r, reqNo') IN
         /\ req' = r
         /\ reqFile' = m.file
         /\ err' = m.err
         /\ pc' = IF m.err = NoError THEN "uploadAndExtract" ELSE "errorHandler"
         /\ disk' = IF m.file = NoFile THEN disk ELSE disk \cup {m.file.path}
         /\ created' = IF m.file = NoFile THEN {} ELSE {m.file.path}
    /\ apiCall' = NoCall
    /\ log' = <<>>
    /\ res' = NoResponse
    /\ UNCHANGED <<normVars, saveVars, nodeEnv, uiVars>>

(***************************************************************************)
(* controllers/uploadController: uploadAndExtract                          *)
(***************************************************************************)
\* the catch block of uploadAndExtract: the uploaded file is unlinked if it
\* still exists, and the error is thrown on
UploadFailed(files, calls, outcome, error) ==
    /\ apiCall' = outcome
    /\ disk' = files \ {reqFile.path}
    /\ log' = log \o calls \o (IF reqFile.path \in files THEN <<"fs.unlinkSync " \o reqFile.path>> ELSE <<>>)
    /\ err' = error
    /\ pc' = "errorHandler"
    /\ UNCHANGED res

UploadAndExtract ==
    /\ pc = "uploadAndExtract"
    /\ UNCHANGED <<normVars, saveVars, reqNo, req, reqFile, nodeEnv, uiVars>>
    /\ IF reqFile = NoFile
       THEN /\ err' = createError("No file uploaded", 400)
            /\ pc' = "errorHandler"
            /\ UNCHANGED <<apiCall, disk, created, log, res>>
       ELSE \E decodes \in (IF reqFile.mimetype = "image/heic" THEN BOOLEAN ELSE {TRUE}) :
            LET isHeic == reqFile.mimetype = "image/heic"
                conv == IF isHeic
                        THEN convertHeicToJpeg(disk, reqFile.path, decodes)
                        ELSE [ok |-> TRUE, path |-> reqFile.path, disk |-> disk, written |-> {},
                              err |-> NoError]
                convCalls == IF isHeic THEN <<"HeicConversionService.convertIfHeic">> ELSE <<>>
                imagePath == conv.path
                readable == imagePath \in conv.disk
            IN  /\ created' = created \cup conv.written
                /\ IF ~conv.ok
                   THEN UploadFailed(conv.disk, convCalls, NoCall, conv.err)
                   ELSE \E outcome \in (IF ocrCallsApi(readable, imagePath) THEN ApiOutcomes ELSE {NoCall}) :
                        LET ocr == extractTextFromImage(readable, imagePath, outcome)
                            ocrCalls == <<"AnthropicService.extractTextFromImage">>
                                        \o (IF outcome = NoCall THEN <<>> ELSE <<"anthropic.messages.create">>)
                        IN  IF ~ocr.ok
                            THEN UploadFailed(conv.disk, convCalls \o ocrCalls, outcome, ocr.err)
                            ELSE /\ apiCall' = outcome
                                 /\ disk' = conv.disk \ {imagePath}
                                 /\ log' = log \o convCalls \o ocrCalls \o <<"fs.unlinkSync " \o imagePath>>
                                 /\ res' = [ status |-> 200, success |-> TRUE, message |-> "",
                                             data |-> [ extractedData |-> ocr.data,
                                                        fileName |-> reqFile.originalname,
                                                        fileSize |-> reqFile.size,
                                                        mimeType |-> reqFile.mimetype ],
                                             errorKeys |-> {} ]
                                 /\ pc' = "done"
                                 /\ UNCHANGED err

\* asyncHandler hands what the handler threw to next(), and express to errorHandler
ErrorHandler ==
    /\ pc = "errorHandler"
    /\ res' = errorHandler(err)
    /\ pc' = "done"
    /\ UNCHANGED <<normVars, saveVars, reqNo, err, uploadVars, nodeEnv, uiVars>>

\* The response has been delivered; the server waits for the next request.
\* What is on disk stays.
EndRequest ==
    /\ pc = "done"
    /\ pc' = "idle"
    /\ req' = NoRequest
    /\ reqFile' = NoFile
    /\ apiCall' = NoCall
    /\ created' = {}
    /\ log' = <<>>
    /\ err' = NoError
    /\ res' = NoResponse
    /\ body' = EmptyObject
    /\ dbFault' = "none"
    /\ query' = NoQuery
    /\ UNCHANGED <<normVars, reqNo, disk, db, reported, nodeEnv, uiVars>>

(***************************************************************************)
(* controllers/saveController: idDataSchema (zod)                          *)
(***************************************************************************)
RECURSIVE Repeat(_, _)
Repeat(c, n) ==
    IF n = 0 THEN ""
    ELSE LET half == Repeat(c, n \div 2) IN half \o half \o (IF n % 2 = 1 THEN c ELSE "")

RECURSIVE Join(_, _)
Join(parts, sep) ==
    IF parts = <<>> THEN ""
    ELSE IF Len(parts) = 1 THEN parts[1]
    ELSE parts[1] \o sep \o Join(Tail(parts), sep)

\* the first message that is not "", "" when there is none
RECURSIVE FirstMessage(_)
FirstMessage(messages) ==
    IF messages = <<>> THEN ""
    ELSE IF messages[1] # "" THEN messages[1] ELSE FirstMessage(Tail(messages))

\* The issue messages of zod 3 (the controller reads error.errors), "" for none.
zodType(v, expected, optional) ==
    IF v.t = "undefined" THEN (IF optional THEN "" ELSE "Required")
    ELSE IF v.t # expected THEN "Expected " \o expected \o ", received " \o v.t
    ELSE ""

zodMin(v, n, message) == IF v.t = "string" /\ Len(v.s) < n THEN message ELSE ""

zodMax(v, n) ==
    IF v.t = "string" /\ Len(v.s) > n
    THEN "String must contain at most " \o NatToString(n) \o " character(s)"
    ELSE ""

zodNumberRange(v, lo, hi) ==
    IF v.t # "number" THEN ""
    ELSE IF v.n < lo THEN "Number must be greater than or equal to " \o NatToString(lo)
    ELSE IF v.n > hi THEN "Number must be less than or equal to " \o NatToString(hi)
    ELSE ""

sexEnum == <<"M", "F", "Male", "Female">>

zodEnum(v, options) ==
    LET expected == Join([i \in 1..Len(options) |-> "'" \o options[i] \o "'"], " | ") IN
    IF v.t = "undefined" THEN ""
    ELSE IF v.t # "string" THEN "Expected " \o expected \o ", received " \o v.t
    ELSE IF \E i \in 1..Len(options) : options[i] = v.s THEN ""
    ELSE "Invalid enum value. Expected " \o expected \o ", received '" \o v.s \o "'"

schemaKeys ==
    << "id", "lastName", "firstName", "middleInitial", "addressStreet", "addressCity",
       "addressState", "addressZip", "sex", "dob", "confidence", "sourceFileName" >>

\* the issue of one key of idDataSchema, "" when its value passes
zodIssue(key, v) ==
    CASE key = "id" -> zodType(v, "string", TRUE)
      [] key = "lastName" ->
            FirstMessage(<<zodType(v, "string", FALSE), zodMin(v, 1, "Last name is required"),
                           zodMax(v, 100)>>)
      [] key = "firstName" ->
            FirstMessage(<<zodType(v, "string", FALSE), zodMin(v, 1, "First name is required"),
                           zodMax(v, 100)>>)
      [] key = "middleInitial" -> FirstMessage(<<zodType(v, "string", TRUE), zodMax(v, 1)>>)
      [] key = "addressStreet" -> FirstMessage(<<zodType(v, "string", TRUE), zodMax(v, 200)>>)
      [] key = "addressCity" -> FirstMessage(<<zodType(v, "string", TRUE), zodMax(v, 100)>>)
      [] key = "addressState" -> FirstMessage(<<zodType(v, "string", TRUE), zodMax(v, 50)>>)
      [] key = "addressZip" -> FirstMessage(<<zodType(v, "string", TRUE), zodMax(v, 20)>>)
      [] key = "sex" -> zodEnum(v, sexEnum)
      [] key = "dob" -> zodType(v, "string", TRUE)
      [] key = "confidence" ->
            FirstMessage(<<zodType(v, "number", TRUE), zodNumberRange(v, 0, 1)>>)
      [] key = "sourceFileName" -> FirstMessage(<<zodType(v, "string", TRUE), zodMax(v, 255)>>)

\* the messages `${err.path.join('.')}: ${err.message}` of the keys from the i-th on
RECURSIVE zodIssuesFrom(_, _)
zodIssuesFrom(b, i) ==
    IF i > Len(schemaKeys) THEN <<>>
    ELSE LET issue == zodIssue(schemaKeys[i], Get(b, schemaKeys[i])) IN
         (IF issue = "" THEN <<>> ELSE <<schemaKeys[i] \o ": " \o issue>>) \o zodIssuesFrom(b, i + 1)

\* idDataSchema.safeParse(body): [success, data, errorMessage]; data holds
\* the schema's keys that the body defines
idDataSchema(b) ==
    LET issues == zodIssuesFrom(b, 1)
        keys == {k \in DOMAIN b : (\E i \in 1..Len(schemaKeys) : schemaKeys[i] = k)
                                  /\ b[k].t # "undefined"}
    IN  [ success |-> issues = <<>>,
          data |-> [k \in keys |-> b[k]],
          errorMessage |-> Join(issues, ", ") ]

(***************************************************************************)
(* models/IDData: the mongoose schema                                      *)
(***************************************************************************)
\* s matches the pattern p, in which 'd' stands for \d and any other
\* character for itself, from its first character to its last
MatchesDigits(s, p) ==
    /\ Len(s) = Len(p)
    /\ \A i \in 1..Len(p) : IF Ch(p, i) = "d" THEN IsDigit(Ch(s, i)) ELSE Ch(s, i) = Ch(p, i)

\* the setters of a String path: trim, uppercase
castString(v, uppercase) ==
    IF v.t # "string" THEN v
    ELSE Str(IF uppercase THEN ToUpperCase(Trim(v.s)) ELSE Trim(v.s))

uppercasePaths == {"middleInitial", "sex"}

\* the _id of the document made by the n-th request: 24 hexadecimal characters
objectId(n) == "65a1b2c3d4e5f60718293a4" \o NatToString(n)

\* new IDData({...data, extractedAt, lastModified, isManuallyEdited: false})
\* made at `time` by the n-th request
newIDData(data, time, n) ==
    [ k \in (DOMAIN data) \cup {"_id", "confidence", "extractedAt", "lastModified", "isManuallyEdited"} |->
        CASE k = "_id" -> Str(objectId(n))
          [] k = "extractedAt" -> Date(time)
          [] k = "lastModified" -> Date(time)
          [] k = "isManuallyEdited" -> Bool(FALSE)
          [] k = "confidence" -> IF k \in DOMAIN data THEN data[k] ELSE Null
          [] OTHER -> castString(data[k], k \in uppercasePaths) ]

\* Mongoose's messages quote paths and values in back quotes, written ' here.
\* required as a test for null and undefined only
checkRequiredNotNull(v) == v.t \notin {"undefined", "null"}

\* the required validator of a String path
checkRequired(v) == v.t = "string" /\ Len(v.s) > 0

maxlengthMessage(path, v, max) ==
    IF Len(v.s) > max
    THEN "Path '" \o path \o "' ('" \o v.s \o "') is longer than the maximum allowed length ("
         \o NatToString(max) \o ")."
    ELSE ""

\* the middle initial test without the letter pattern
middleInitialValidatorAnyChar(v) == v = "" \/ Len(v) = 1

middleInitialValidator(v) == v = "" \/ (Len(v) = 1 /\ IsUpper(v))

\* the ZIP test with the pattern's end left open
addressZipValidatorNoEnd(v) == v = "" \/ (Len(v) >= 5 /\ MatchesDigits(SubSeq(v, 1, 5), "ddddd"))

addressZipValidator(v) == v = "" \/ MatchesDigits(v, "ddddd") \/ MatchesDigits(v, "ddddd-dddd")

dobValidator(v) == v = "" \/ MatchesDigits(v, "dddd-dd-dd") \/ MatchesDigits(v, "dd/dd/dddd")

\* the message of the first validator of a path that fails, "" when none
\* does; only required runs on a value that is undefined or null
validatePath(path, v) ==
    IF path \in {"lastName", "firstName"} /\ ~checkRequired(v)
    THEN (IF path = "lastName" THEN "Last name is required" ELSE "First name is required")
    ELSE IF v.t # "string" THEN
        (IF path = "confidence" /\ v.t = "number" /\ v.n < 0
         THEN "Path 'confidence' (" \o ToStr(v) \o ") is less than minimum allowed value (0)."
         ELSE IF path = "confidence" /\ v.t = "number" /\ v.n > 1
         THEN "Path 'confidence' (" \o ToStr(v) \o ") is more than maximum allowed value (1)."
         ELSE "")
    ELSE CASE path = "id" -> maxlengthMessage(path, v, 50)
           [] path \in {"lastName", "firstName"} -> maxlengthMessage(path, v, 100)
           [] path = "middleInitial" ->
                FirstMessage(<<maxlengthMessage(path, v, 1),
                               IF middleInitialValidator(v.s) THEN ""
                               ELSE "Middle initial must be a single letter">>)
           [] path = "addressStreet" -> maxlengthMessage(path, v, 200)
           [] path = "addressCity" -> maxlengthMessage(path, v, 100)
           [] path = "addressState" -> maxlengthMessage(path, v, 50)
           [] path = "addressZip" ->
                FirstMessage(<<maxlengthMessage(path, v, 20),
                               IF addressZipValidator(v.s) THEN "" ELSE "Invalid ZIP code format">>)
           [] path = "sex" ->
                IF \E i \in 1..Len(sexEnum) : sexEnum[i] = v.s THEN ""
                ELSE "'" \o v.s \o "' is not a valid enum value for path 'sex'."
           [] path = "dob" ->
                IF dobValidator(v.s) THEN ""
                ELSE "Invalid date format. Use YYYY-MM-DD or MM/DD/YYYY"
           [] path = "sourceFileName" -> maxlengthMessage(path, v, 255)
           [] OTHER -> ""

RECURSIVE validateFrom(_, _)
validateFrom(doc, i) ==
    IF i > Len(schemaKeys) THEN <<>>
    ELSE LET message == validatePath(schemaKeys[i], Get(doc, schemaKeys[i])) IN
         (IF message = "" THEN <<>> ELSE <<message>>) \o validateFrom(doc, i + 1)

\* doc.validate(): the messages of the ValidationError's errors, <<>> when valid
validate(doc) == validateFrom(doc, 1)

\* the paths isModified() reports: those of a new document that were given
\* to its constructor
modifiedPaths(doc) == DOMAIN doc

\* IDDataSchema.pre('save')
preSave(doc, modified, time) ==
    [ doc EXCEPT !["lastModified"] = Date(time),
                 !["isManuallyEdited"] =
                     IF modified \cap {"lastName", "firstName", "id", "addressStreet"} # {}
                     THEN Bool(TRUE) ELSE @ ]

DbFaults == {"none", "duplicate", "cast", "other"}

\* the error the driver rejects the insert with
dbError(fault) ==
    CASE fault = "duplicate" ->
            [NewError("MongoServerError", "E11000 duplicate key error collection: iddatas")
                EXCEPT !.code = Num(11000)]
      [] fault = "cast" -> NewError("CastError", "Cast to ObjectId failed")
      [] OTHER -> NewError("MongoNetworkError", "connection timed out")

\* newIDData.save(): validation, the pre-save hook, then the insert, which
\* the database performs or rejects: [ok, doc, err]
save(doc, time, fault) ==
    IF validate(doc) # <<>>
    THEN [ok |-> FALSE, doc |-> doc,
          err |-> [NewError("ValidationError", "IDData validation failed") EXCEPT
                      !.errors = validate(doc)]]
    ELSE IF fault # "none" THEN [ok |-> FALSE, doc |-> doc, err |-> dbError(fault)]
    ELSE [ok |-> TRUE, doc |-> preSave(doc, modifiedPaths(doc), time), err |-> NoError]

(***************************************************************************)
(* controllers/saveController: saveData                                    *)
(***************************************************************************)
\* the catch block of saveData
saveCatch(error) ==
    IF error.name = "ValidationError"
    THEN createError("Database validation error: " \o Join(error.errors, ", "), 400)
    ELSE IF error.code = Num(11000) THEN createError("Duplicate entry found", 409)
    ELSE IF error.name = "CastError" THEN createError("Invalid data format", 400)
    ELSE error

\* the body of the 201 response
savedResponse(savedData) ==
    [ status |-> 201, success |-> TRUE, message |-> "ID data saved successfully",
      errorKeys |-> {},
      data |-> [ id |-> Get(savedData, "_id"),
                 extractedData |->
                    [ k \in { "id", "lastName", "firstName", "middleInitial", "addressStreet",
                              "addressCity", "addressState", "addressZip", "sex", "dob",
                              "confidence" } |-> Get(savedData, k) ],
                 metadata |->
                    [ k \in {"sourceFileName", "extractedAt", "lastModified", "isManuallyEdited"}
                        |-> Get(savedData, k) ] ] ]

MaxSaves == 2

SaveBase == [k \in {"lastName", "firstName"} |-> IF k = "lastName" THEN Str("Doe") ELSE Str("Jane")]

\* the values a request body gives one key while the others are as in SaveBase
SaveValues(key) ==
    CASE key = "lastName" ->
            { Undefined, Null, Num(7), Str(""), Str("  "), Str(" Roe "), Str(Repeat("a", 100)),
              Str(Repeat("a", 101)) }
      [] key = "firstName" -> {Undefined, Str(""), Str(" \t"), Str("Al")}
      [] key = "middleInitial" -> {Str("q"), Str("7"), Str("QQ"), Str(""), Str(" ")}
      [] key = "addressZip" ->
            { Str("12345"), Str("12345-6789"), Str("1234"), Str("12345 "), Str("12345-678"),
              Str(""), Str(Repeat("1", 21)) }
      [] key = "sex" ->
            { Str("M"), Str("F"), Str("Male"), Str("Female"), Str("X"), Str("m"), Str("Anthropic"),
              Num(1) }
      [] key = "confidence" -> {Num(0), Num(1), Num(2), Num(-1), Str("1")}
      [] key = "id" -> {Str("D1234567"), Str(Repeat("9", 51)), Str("Anthropic" \o Repeat("9", 42))}
      [] key = "dob" -> {Str("1990-01-31"), Str("01/31/1990"), Str("31.01.1990")}
      [] key = "addressStreet" -> {Str("1 Main St"), Str(Repeat("s", 201))}
      [] key = "addressCity" -> {Str(Repeat("c", 101))}
      [] key = "addressState" -> {Str(Repeat("t", 51))}
      [] key = "sourceFileName" -> {Str("id.jpg"), Str(Repeat("f", 256))}

\* b with key k set to v, or without it when v is undefined
WithKey(b, k, v) ==
    IF v = Undefined THEN [x \in (DOMAIN b) \ {k} |-> b[x]] ELSE Put(b, k, v)

SaveBodies ==
    {SaveBase} \cup
    UNION { { WithKey(SaveBase, schemaKeys[i], v) : v \in SaveValues(schemaKeys[i]) } :
              i \in 1..Len(schemaKeys) }

\* saveData on body b, as the n-th request, at time n, with the database
\* answering the insert by `fault`: [ok, doc, err, asked]; asked tells whether
\* the insert reached the database
saveData(b, n, fault) ==
    LET validationResult == idDataSchema(b) IN
    IF ~validationResult.success
    THEN [ ok |-> FALSE, doc |-> EmptyObject, asked |-> FALSE,
           err |-> createError("Validation Error: " \o validationResult.errorMessage, 400) ]
    ELSE LET newDoc == newIDData(validationResult.data, n, n)
             saved == save(newDoc, n, fault)
         IN  IF saved.ok
             THEN [ok |-> TRUE, doc |-> saved.doc, asked |-> TRUE, err |-> NoError]
             ELSE [ ok |-> FALSE, doc |-> EmptyObject, asked |-> validate(newDoc) = <<>>,
                    err |-> saveCatch(saved.err) ]

saveDataTable ==
    [b \in SaveBodies, n \in 1..MaxSaves, fault \in DbFaults |-> saveData(b, n, fault)]

\* an insert that puts doc in the place of what is stored
insertOneReplacing(collection, doc) == <<doc>>

\* the collection after the insert of doc
insertOne(collection, doc) == Append(collection, doc)

\* A request with one of the bodies arrives at POST /api/id/save and saveData
\* handles it; the clock reads the request's number.
SaveRequest(bodies) ==
    /\ pc = "idle"
    /\ reqNo < MaxSaves
    /\ reqNo' = reqNo + 1
    /\ \E b \in bodies, fault \in DbFaults :
         LET out == saveDataTable[b, reqNo', fault] IN
         /\ fault # "none" => out.asked
         /\ body' = b
         /\ dbFault' = fault
         /\ IF out.ok
            THEN /\ db' = insertOne(db, out.doc)
                 /\ res' = savedResponse(out.doc)
                 /\ reported' = Put(reported, out.doc["_id"].s,
                                      [ body |-> b,
                                        extractedData |-> savedResponse(out.doc).data.extractedData ])
                 /\ pc' = "done"
                 /\ UNCHANGED err
            ELSE /\ err' = out.err
                 /\ pc' = "errorHandler"
                 /\ UNCHANGED <<db, res, reported>>
    /\ UNCHANGED <<normVars, uploadVars, query, nodeEnv, uiVars>>

SaveData == SaveRequest(SaveBodies)

(***************************************************************************)
(* controllers/saveController: getDataById, searchData, getAllData         *)
(*                                                                         *)
(* The database answers every read; a read fails only when the query       *)
(* itself is one the server rejects.                                       *)
(***************************************************************************)
HexChars == "0123456789abcdefABCDEF"

\* the test with neither anchor nor count: some hexadecimal character
isObjectIdStringUnanchored(id) == \E i \in 1..Len(id) : HasChar(HexChars, Ch(id, i))

\* /^[0-9a-fA-F]{24}$/
isObjectIdString(id) == Len(id) = 24 /\ \A i \in 1..24 : HasChar(HexChars, Ch(id, i))

\* findById answering with the latest document of the collection
findByIdLatest(collection, id) ==
    IF collection = <<>> THEN <<>> ELSE <<collection[Len(collection)]>>

\* IDData.findById(id): the id is cast to an ObjectId, whose twelve bytes do
\* not keep the case of the hexadecimal digits; <<>> stands for null
findById(collection, id) ==
    SelectSeq(collection, LAMBDA doc : ToLowerCase(doc["_id"].s) = ToLowerCase(id))

\* the object the three GET handlers build of a document
itemView(item) ==
    [ id |-> Get(item, "_id"),
      extractedData |->
         [ k \in { "id", "lastName", "firstName", "middleInitial", "addressStreet",
                   "addressCity", "addressState", "addressZip", "sex", "dob",
                   "confidence" } |-> Get(item, k) ],
      metadata |->
         [ k \in {"sourceFileName", "extractedAt", "lastModified", "isManuallyEdited"}
             |-> Get(item, k) ] ]

\* getDataById on req.params.id: [ok, res, err, calls]; calls are the calls
\* made to the database
getDataById(collection, id) ==
    IF id = "" \/ ~isObjectIdString(id)
    THEN [ok |-> FALSE, res |-> NoResponse, err |-> createError("Invalid ID format", 400),
          calls |-> <<>>]
    ELSE LET data == findById(collection, id) IN
         IF data = <<>>
         THEN [ok |-> FALSE, res |-> NoResponse, err |-> createError("ID data not found", 404),
               calls |-> <<"IDData.findById">>]
         ELSE [ok |-> TRUE, err |-> NoError, calls |-> <<"IDData.findById">>,
               res |-> [status |-> 200, success |-> TRUE, message |-> "", errorKeys |-> {},
                        data |-> itemView(data[1])]]

\* parseInt(v) of a query parameter: white space, a sign, then decimal
\* digits, whatever follows them; NaN when there is no digit
NaN == [nan |-> TRUE, n |-> 0]

parseInt(v) ==
    IF v.t # "string" THEN NaN
    ELSE LET i == SkipWs(v.s, 1)
             j == IF At(v.s, i) \in {"-", "+"} THEN i + 1 ELSE i
             k == DigitsEnd(v.s, j)
         IN  IF k = j THEN NaN
             ELSE [nan |-> FALSE,
                   n |-> (IF At(v.s, i) = "-" THEN -1 ELSE 1) * StringToNat(SubSeq(v.s, j, k - 1))]

\* parsed || fallback: NaN and 0 are falsy
OrDefault(parsed, fallback) == IF parsed.nan \/ parsed.n = 0 THEN fallback ELSE parsed.n

\* Math.ceil(total / limit) of a total >= 0 and a limit other than 0
ceilDiv(total, limit) ==
    IF limit > 0 THEN (total + limit - 1) \div limit ELSE -(total \div (-limit))

\* .sort({ extractedAt: -1 }): the latest document first
RECURSIVE sortByExtractedAtDesc(_)
sortByExtractedAtDesc(collection) ==
    IF collection = <<>> THEN <<>>
    ELSE LET latest == CHOOSE i \in 1..Len(collection) :
                          \A j \in 1..Len(collection) :
                             collection[j].extractedAt.n <= collection[i].extractedAt.n
         IN  <<collection[latest]>> \o
             sortByExtractedAtDesc(SubSeq(collection, 1, latest - 1) \o
                                   SubSeq(collection, latest + 1, Len(collection)))

\* .skip(skip).limit(limit) of the sorted documents, skip >= 0: the driver
\* sends a negative limit as its absolute value, in a single batch
skipLimit(sorted, skip, limit) ==
    LET count == IF limit < 0 THEN -limit ELSE limit
        last == IF skip + count < Len(sorted) THEN skip + count ELSE Len(sorted)
    IN  SubSeq(sorted, skip + 1, last)

\* getAllData on req.query: [ok, res, err, calls]; the server rejects a find
\* with a negative skip
getAllData(collection, q) ==
    LET page == OrDefault(parseInt(q.page), 1)
        limit == OrDefault(parseInt(q.limit), 10)
        skip == (page - 1) * limit
        total == Len(collection)
        calls == <<"IDData.find", "IDData.countDocuments">>
    IN  IF skip < 0
        THEN [ok |-> FALSE, res |-> NoResponse, calls |-> calls,
              err |-> NewError("MongoServerError", "BSON field 'skip' value must be >= 0")]
        ELSE LET data == skipLimit(sortByExtractedAtDesc(collection), skip, limit) IN
             [ok |-> TRUE, err |-> NoError, calls |-> calls,
              res |-> [status |-> 200, success |-> TRUE, message |-> "", errorKeys |-> {},
                       data |-> [i \in 1..Len(data) |-> itemView(data[i])],
                       pagination |-> [currentPage |-> page,
                                       totalPages |-> ceilDiv(total, limit),
                                       totalRecords |-> total,
                                       hasMore |-> page * limit < total]]]

\* A $regex pattern as the server's regular expressions read it, for the
\* patterns made of single characters, '.', '*' and parentheses: '.' stands
\* for any character, '*' repeats the character before it, a parenthesis
\* opens or closes a group. The matcher covers the patterns without a group.
RECURSIVE parensBalanced(_, _)
parensBalanced(p, depth) ==
    IF p = "" THEN depth = 0
    ELSE IF Ch(p, 1) = "(" THEN parensBalanced(SubSeq(p, 2, Len(p)), depth + 1)
    ELSE IF Ch(p, 1) = ")" THEN depth > 0 /\ parensBalanced(SubSeq(p, 2, Len(p)), depth - 1)
    ELSE parensBalanced(SubSeq(p, 2, Len(p)), depth)

\* the pattern compiles: its groups are closed and every '*' has something
\* to repeat
regexCompiles(p) ==
    /\ parensBalanced(p, 0)
    /\ \A i \in 1..Len(p) : Ch(p, i) = "*" => i > 1 /\ Ch(p, i - 1) \notin {"*", "("}

RECURSIVE matchHere(_, _)
\* the pattern matches a prefix of the text
matchHere(p, text) ==
    IF p = "" THEN TRUE
    ELSE IF Len(p) >= 2 /\ Ch(p, 2) = "*"
    THEN \E k \in 0..Len(text) :
            /\ \A i \in 1..k : Ch(p, 1) = "." \/ Ch(p, 1) = Ch(text, i)
            /\ matchHere(SubSeq(p, 3, Len(p)), SubSeq(text, k + 1, Len(text)))
    ELSE /\ text # ""
         /\ Ch(p, 1) = "." \/ Ch(p, 1) = Ch(text, 1)
         /\ matchHere(SubSeq(p, 2, Len(p)), SubSeq(text, 2, Len(text)))

\* { $regex: p, $options: 'i' } on a field's value: only a string matches
regexMatch(p, v) ==
    /\ v.t = "string"
    /\ \E i \in 1..(Len(v.s) + 1) :
          matchHere(ToLowerCase(p), ToLowerCase(SubSeq(v.s, i, Len(v.s))))

\* IDDataSchema.statics.findBySearchTerm: [ok, data, err]
findBySearchTerm(collection, searchTerm) ==
    IF ~regexCompiles(searchTerm)
    THEN [ok |-> FALSE, data |-> <<>>,
          err |-> NewError("MongoServerError", "$regex has to be a valid regular expression")]
    ELSE [ok |-> TRUE, err |-> NoError,
          data |-> sortByExtractedAtDesc(
                      SelectSeq(collection,
                                LAMBDA doc : \/ regexMatch(searchTerm, Get(doc, "id"))
                                             \/ regexMatch(searchTerm, Get(doc, "lastName"))
                                             \/ regexMatch(searchTerm, Get(doc, "firstName"))))]

\* the length test without the trim
searchTermTooShortUntrimmed(searchTerm) == ~Truthy(searchTerm) \/ Len(searchTerm.s) < 2

\* !searchTerm || searchTerm.trim().length < 2
searchTermTooShort(searchTerm) == ~Truthy(searchTerm) \/ Len(Trim(searchTerm.s)) < 2

\* searchData on req.query: [ok, res, err, calls]
searchData(collection, q) ==
    LET searchTerm == q.q IN
    IF searchTermTooShort(searchTerm)
    THEN [ok |-> FALSE, res |-> NoResponse, calls |-> <<>>,
          err |-> createError("Search term must be at least 2 characters long", 400)]
    ELSE LET found == findBySearchTerm(collection, Trim(searchTerm.s)) IN
         IF ~found.ok
         THEN [ok |-> FALSE, res |-> NoResponse, calls |-> <<"IDData.find">>, err |-> found.err]
         ELSE [ok |-> TRUE, err |-> NoError, calls |-> <<"IDData.find">>,
               res |-> [status |-> 200, success |-> TRUE, message |-> "", errorKeys |-> {},
                        data |-> [i \in 1..Len(found.data) |-> itemView(found.data[i])]]]

\* saveRoutes: a GET request with req.params and req.query as in q arrives
\* and its handler answers with out, or throws to errorHandler
GetRequest(q, out) ==
    /\ pc = "idle"
    /\ query' = q
    /\ log' = out.calls
    /\ IF out.ok
       THEN /\ res' = out.res
            /\ pc' = "done"
            /\ UNCHANGED err
       ELSE /\ err' = out.err
            /\ pc' = "errorHandler"
            /\ UNCHANGED res
    /\ UNCHANGED <<normVars, reqNo, req, reqFile, apiCall, disk, created, body, dbFault, db,
                   reported, nodeEnv, uiVars>>

\* the ids asked for: of stored records in either case of the digits, of no
\* record, and malformed ones
RecordIds ==
    { objectId(n) : n \in 1..MaxSaves } \cup { ToUpperCase(objectId(n)) : n \in 1..MaxSaves } \cup
    { "xyz", objectId(0), SubSeq(objectId(1), 1, 23), objectId(1) \o "0",
      SubSeq(objectId(1), 1, 23) \o "g" }

\* GET /api/id/:id
GetDataById ==
    \E id \in RecordIds :
       GetRequest([NoQuery EXCEPT !.route = "getDataById", !.id = Str(id)], getDataById(db, id))

SearchTerms ==
    { Undefined, Str(""), Str("a"), Str("a "), Str(" d"), Str("do"), Str(" oe "), Str("JA"),
      Str("12"), Str("D."), Str("e*"), Str("(a") }

\* GET /api/id/search
SearchData ==
    \E term \in SearchTerms :
       LET q == [NoQuery EXCEPT !.route = "searchData", !.q = term] IN
       GetRequest(q, searchData(db, q))

PageParams == {Undefined, Str("abc"), Str("0"), Str("1"), Str("2"), Str("-1")}

LimitParams == {Undefined, Str("0"), Str("1"), Str("2"), Str("-1"), Str("-2")}

\* GET /api/id
GetAllData ==
    \E page \in PageParams, limit \in LimitParams :
       LET q == [NoQuery EXCEPT !.route = "getAllData", !.page = page, !.limit = limit] IN
       GetRequest(q, getAllData(db, q))

(***************************************************************************)
(* DataForm and App (frontend).  A field that is absent (undefined) and a  *)
(* field that is the empty string are both "": the form treats them alike  *)
(* (both are falsy for isFormEmpty, both fail a required field).           *)
(***************************************************************************)
serverVars == <<normVars, httpVars, uploadVars, saveVars>>

\* the fields of the form that its schema and its rendering look at
NoData == [id |-> "", lastName |-> "", firstName |-> "", middleInitial |-> ""]

\* idDataSchema of DataForm.tsx, as zodResolver applies it to the form's values
formDataSchema(values) ==
    /\ Len(values.lastName) >= 1
    /\ Len(values.firstName) >= 1
    /\ Len(values.middleInitial) <= 1

\* !watch('lastName') && !watch('firstName') && !watch('id')
isFormEmpty(values) == values.lastName = "" /\ values.firstName = "" /\ values.id = ""

\* formState.isDirty: the values differ from the default values, which
\* reset() sets to initialData
isDirty(values, defaults) == values # defaults

\* the Save button's disabled attribute
saveDisabled == isSaving \/ ~hasChanges

MaxPosts == 2

\* what the OCR route can deliver: a full record, and one whose name could not be read
ExtractedChoices ==
    { [id |-> "D1", lastName |-> "Doe", firstName |-> "Jane", middleInitial |-> "Q"],
      [id |-> "D1", lastName |-> "", firstName |-> "", middleInitial |-> ""] }

\* App.handleUploadComplete: setExtractedData(data); DataForm's effect then
\* resets the form to the new initialData, and isDirty becomes false
handleUploadComplete(data) ==
    /\ initialData' = data
    /\ formValues' = data
    /\ hasChanges' = FALSE
    /\ savedSince' = FALSE
    /\ UNCHANGED <<isReadonly, isSaving, saveFetches, posts>>

\* an upload made in the panel completes
UploadComplete ==
    \E data \in ExtractedChoices :
       /\ handleUploadComplete(data)
       /\ UNCHANGED <<panelVars, serverVars>>

\* the Edit button, rendered when isReadonly && !isFormEmpty
HandleEdit ==
    /\ isReadonly
    /\ ~isFormEmpty(formValues)
    /\ isReadonly' = FALSE
    /\ UNCHANGED <<formValues, initialData, isSaving, hasChanges, saveFetches, posts, savedSince,
                   panelVars, serverVars>>

\* the Cancel button, rendered when !isReadonly and disabled while saving
HandleCancel ==
    /\ ~isReadonly
    /\ ~isSaving
    /\ formValues' = initialData
    /\ isReadonly' = TRUE
    /\ hasChanges' = FALSE
    /\ UNCHANGED <<initialData, isSaving, saveFetches, posts, savedSince, panelVars, serverVars>>

\* what the user types into or picks for a field
FieldEdits ==
    { <<"lastName", "Roe">>, <<"lastName", "">>, <<"firstName", "">>, <<"id", "">>,
      <<"middleInitial", "QQ">> }

\* the user changes a field: the inputs are rendered when the form is not
\* empty and take input when they are not readOnly
ChangeField ==
    \E edit \in FieldEdits :
       /\ ~isFormEmpty(formValues)
       /\ ~isReadonly
       /\ formValues' = [formValues EXCEPT ![edit[1]] = edit[2]]
       /\ hasChanges' = isDirty(formValues', initialData)
       /\ UNCHANGED <<initialData, isReadonly, isSaving, saveFetches, posts, savedSince,
                      panelVars, serverVars>>

\* handleSave up to its fetch: the POST to /api/id/save is issued
handleSave(data) ==
    /\ isSaving' = TRUE
    /\ saveFetches' = Append(saveFetches, data)
    /\ posts' = posts + 1
    /\ UNCHANGED <<formValues, initialData, isReadonly, hasChanges, savedSince>>

\* handleSubmit(handleSave): handleSave runs when the resolver accepts the values
handleSubmit ==
    /\ posts < MaxPosts
    /\ IF formDataSchema(formValues)
       THEN handleSave(formValues)
       ELSE UNCHANGED formVars
    /\ UNCHANGED <<panelVars, serverVars>>

\* a click on the Save button, rendered when !isReadonly
ClickSave ==
    /\ ~isReadonly
    /\ ~saveDisabled
    /\ handleSubmit

\* submission of the form element (Enter in one of its inputs, through the
\* hidden submit button); the form is rendered when it is not empty
SubmitForm ==
    /\ ~isFormEmpty(formValues)
    /\ handleSubmit

\* the sequence without its i-th element
RemoveAt(s, i) == SubSeq(s, 1, i - 1) \o SubSeq(s, i + 1, Len(s))

\* handleSave after its fetch: the answer to a POST arrives
SaveSettles ==
    \E i \in 1..Len(saveFetches), success \in BOOLEAN :
       /\ saveFetches' = RemoveAt(saveFetches, i)
       /\ isSaving' = FALSE
       /\ IF success
          THEN /\ isReadonly' = TRUE
               /\ hasChanges' = FALSE
               /\ initialData' = saveFetches[i]
               /\ formValues' = saveFetches[i]
               /\ savedSince' = TRUE
          ELSE UNCHANGED <<isReadonly, hasChanges, initialData, formValues, savedSince>>
       /\ UNCHANGED <<posts, panelVars, serverVars>>

(***************************************************************************)
(* UploadPanel (frontend)                                                  *)
(***************************************************************************)
\* the extensions listed under each accepted MIME type
ACCEPTED_FILE_TYPES ==
    [mime \in {"image/jpeg", "image/png", "application/pdf", "image/heic"} |->
        CASE mime = "image/jpeg" -> {".jpg", ".jpeg"}
          [] mime = "image/png" -> {".png"}
          [] mime = "application/pdf" -> {".pdf"}
          [] mime = "image/heic" -> {".heic", ".HEIC"}]

\* 10 * 1024 * 1024
MAX_FILE_SIZE == 10485760

NoPick == [name |-> "", type |-> "", size |-> 0]

\* the error message, "" for null
validateFile(file) ==
    IF file.size > MAX_FILE_SIZE
    THEN "File size must be less than 10MB"
    ELSE IF file.type \notin DOMAIN ACCEPTED_FILE_TYPES
         THEN "Invalid file type. Accepted formats: JPG, PNG, PDF, HEIC"
         ELSE ""

\* useDropzone's accept and maxSize: a file is accepted when its type is one
\* of the keys or its name ends in one of the listed extensions (in either
\* case), and its size is at most maxSize
dropzoneAccepts(file) ==
    /\ \/ file.type \in DOMAIN ACCEPTED_FILE_TYPES
       \/ \E mime \in DOMAIN ACCEPTED_FILE_TYPES :
             \E ext \in ACCEPTED_FILE_TYPES[mime] :
                ToLowerCase(extname(file.name)) = ToLowerCase(ext)
    /\ file.size <= MAX_FILE_SIZE

\* useDropzone's disabled; App passes isUploading={false}
dropzoneDisabled(status) == status = "uploading"

\* an Extract Text button that stays enabled
uploadNeverDisabled(status) == FALSE

\* the Extract Text button's disabled attribute; App passes isUploading={false}
uploadDisabled(status) == status = "uploading"

\* the reset buttons are rendered when a file is selected and no upload runs
resetRendered == selectedFile # NoPick /\ uploadStatus # "uploading"

MaxUploads == 2

\* the files the user offers: a valid one of the largest size, one too
\* large, one of a type that is not accepted, and one with an accepted
\* extension for which the browser reports no type
PickFiles ==
    { [name |-> "id.jpg", type |-> "image/jpeg", size |-> MAX_FILE_SIZE],
      [name |-> "big.png", type |-> "image/png", size |-> MAX_FILE_SIZE + 1],
      [name |-> "anim.gif", type |-> "image/gif", size |-> 2048],
      [name |-> "photo.heic", type |-> "", size |-> 2048] }

\* the acceptedFiles that onDrop gets for each file offered
acceptedFiles == [file \in PickFiles |-> IF dropzoneAccepts(file) THEN <<file>> ELSE <<>>]

\* handleFileSelect, with onError's argument kept in dropError
handleFileSelect(files) ==
    IF files = <<>>
    THEN /\ dropError' = ""
         /\ UNCHANGED <<selectedFile, uploadStatus, uploadProgress>>
    ELSE LET validationError == validateFile(files[1]) IN
         IF validationError # ""
         THEN /\ dropError' = validationError
              /\ uploadStatus' = "error"
              /\ UNCHANGED <<selectedFile, uploadProgress>>
         ELSE /\ dropError' = ""
              /\ selectedFile' = files[1]
              /\ uploadStatus' = "idle"
              /\ uploadProgress' = 0

\* the user drops a file on, or picks one in, the dropzone, which is rendered
\* when no file is selected: onDrop gets the files the dropzone accepted
OnDrop ==
    \E file \in PickFiles :
       /\ selectedFile = NoPick
       /\ ~dropzoneDisabled(uploadStatus)
       /\ dropped' = file
       /\ handleFileSelect(acceptedFiles[file])
       /\ UNCHANGED <<progressIntervals, uploads, formVars, serverVars>>

\* handleUpload up to its fetch: the POST to /api/id/upload is issued and the
\* progress timer of this upload is set
HandleUpload ==
    /\ selectedFile # NoPick
    /\ ~uploadDisabled(uploadStatus)
    /\ Len(uploads) < MaxUploads
    /\ uploadStatus' = "uploading"
    /\ uploadProgress' = 0
    /\ progressIntervals' = progressIntervals \cup {Len(uploads) + 1}
    /\ uploads' = Append(uploads, [pc |-> "fetch", file |-> selectedFile, reply |-> "",
                                   data |-> NoData, outcome |-> "", onUploadComplete |-> 0,
                                   onError |-> 0])
    /\ UNCHANGED <<selectedFile, dropped, dropError, formVars, serverVars>>

\* a progress timer fires
ProgressInterval ==
    \E n \in progressIntervals :
       /\ IF uploadProgress >= 90
          THEN /\ progressIntervals' = progressIntervals \ {n}
               /\ uploadProgress' = 90
          ELSE /\ uploadProgress' = uploadProgress + 10
               /\ UNCHANGED progressIntervals
       /\ UNCHANGED <<selectedFile, uploadStatus, uploads, dropped, dropError, formVars,
                      serverVars>>

\* the catch block of handleUpload
catchUpload(n) ==
    /\ uploadStatus' = "error"
    /\ uploads' = [uploads EXCEPT ![n].pc = "done", ![n].outcome = "error",
                                  ![n].onError = @ + 1]

\* the fetch of an upload is rejected (the network failed)
FetchRejects ==
    \E n \in 1..Len(uploads) :
       /\ uploads[n].pc = "fetch"
       /\ catchUpload(n)
       /\ UNCHANGED <<selectedFile, uploadProgress, progressIntervals, dropped, dropError,
                      formVars, serverVars>>

\* the answers of the server: success with the extracted data, success
\* without data, and the ones that throw into the catch block alike (an
\* error status, success false, a body that is not JSON)
Replies == {"extracted", "noData", "failed"}

\* the fetch of an upload is resolved with a response: the timer of this
\* upload is cleared, the progress is set to 100 and the body is awaited
FetchResolves ==
    \E n \in 1..Len(uploads), reply \in Replies :
       \E data \in IF reply = "extracted" THEN ExtractedChoices ELSE {NoData} :
       /\ uploads[n].pc = "fetch"
       /\ progressIntervals' = progressIntervals \ {n}
       /\ uploadProgress' = 100
       /\ uploads' = [uploads EXCEPT ![n].pc = "json", ![n].reply = reply, ![n].data = data]
       /\ UNCHANGED <<selectedFile, uploadStatus, dropped, dropError, formVars, serverVars>>

\* response.json() settles and handleUpload runs to its end; the state
\* updates of one run are rendered together, so that the status set before
\* an exception is not seen
ResponseJson ==
    \E n \in 1..Len(uploads) :
       /\ uploads[n].pc = "json"
       /\ IF uploads[n].reply = "extracted"
          THEN /\ uploadStatus' = "success"
               /\ uploads' = [uploads EXCEPT ![n].pc = "done", ![n].outcome = "success",
                                             ![n].onUploadComplete = @ + 1]
               /\ handleUploadComplete(uploads[n].data)
          ELSE /\ catchUpload(n)
               /\ UNCHANGED formVars
       /\ UNCHANGED <<selectedFile, uploadProgress, progressIntervals, dropped, dropError,
                      serverVars>>

\* the X button and the Choose Different File button
HandleReset ==
    /\ resetRendered
    /\ selectedFile' = NoPick
    /\ uploadStatus' = "idle"
    /\ uploadProgress' = 0
    /\ UNCHANGED <<progressIntervals, uploads, dropped, dropError, formVars, serverVars>>

(***************************************************************************)
(* Specifications                                                          *)
(***************************************************************************)
PanelIdle ==
    /\ selectedFile = NoPick
    /\ uploadProgress = 0
    /\ uploadStatus = "idle"
    /\ progressIntervals = {}
    /\ uploads = <<>>
    /\ dropped = NoPick
    /\ dropError = ""

FormIdle ==
    /\ formValues = NoData
    /\ initialData = NoData
    /\ isReadonly = TRUE
    /\ isSaving = FALSE
    /\ hasChanges = FALSE
    /\ saveFetches = <<>>
    /\ posts = 0
    /\ savedSince = FALSE

HttpIdle ==
    /\ pc = "idle"
    /\ reqNo = 0
    /\ err = NoError
    /\ res = NoResponse
    /\ nodeEnv = "production"

UploadIdle ==
    /\ req = NoRequest
    /\ reqFile = NoFile
    /\ apiCall = NoCall
    /\ disk = {}
    /\ created = {}
    /\ log = <<>>

SaveIdle ==
    /\ body = EmptyObject
    /\ dbFault = "none"
    /\ db = <<>>
    /\ query = NoQuery
    /\ reported = EmptyObject

NormIdle ==
    /\ normData = <<>>
    /\ normalized = EmptyObject
    /\ normPc = "done"

\* The upload route: multer, uploadAndExtract, errorHandler.
InitUpload == HttpIdle /\ UploadIdle /\ SaveIdle /\ NormIdle /\ PanelIdle /\ FormIdle

NextUpload == UploadSingle \/ UploadAndExtract \/ ErrorHandler \/ EndRequest

SpecUpload == InitUpload /\ [][NextUpload]_vars

\* The save route: saveData, errorHandler.
InitSave == HttpIdle /\ UploadIdle /\ SaveIdle /\ NormIdle /\ PanelIdle /\ FormIdle

NextSave == SaveData \/ ErrorHandler \/ EndRequest

SpecSave == InitSave /\ [][NextSave]_vars

\* The normalisation on its own: every bounded reply object is an input.
MaxKeys == 2

NormKeys ==
    { "surname", "Last Name", "zip_code", "zipcode", "Gender", "sex", "middle name", "nickname" }

NormValues ==
    { Str("female"), Str(" Male "), Str(""), Str("  "), Str(" 12345-6789"), Num(0), Num(7), Null }

NormEntries == [k : NormKeys, v : NormValues]

\* objects: sequences of entries with pairwise different keys
NormObjects ==
    UNION { { d \in [1..n -> NormEntries] : \A i, j \in 1..n : i # j => d[i].k # d[j].k }
            : n \in 0..MaxKeys }

InitNorm ==
    /\ normData \in NormObjects
    /\ normalized = EmptyObject
    /\ normPc = "input"
    /\ HttpIdle
    /\ UploadIdle
    /\ SaveIdle
    /\ PanelIdle
    /\ FormIdle

Normalize ==
    /\ normPc = "input"
    /\ normalized' = normalizeExtractedData(normData)
    /\ normPc' = "done"
    /\ UNCHANGED <<normData, httpVars, uploadVars, saveVars, uiVars>>

NextNorm == Normalize

SpecNorm == InitNorm /\ [][NextNorm]_vars

\* The save router: saveData, getAllData, searchData, getDataById,
\* errorHandler, in either mode of the server.
NodeEnvs == {"development", "production"}

RecordBodies ==
    { SaveBase, WithKey(SaveBase, "lastName", Str(" Roe ")), WithKey(SaveBase, "firstName", Str("Al")),
      WithKey(SaveBase, "middleInitial", Str("q")), WithKey(SaveBase, "id", Str("D1234567")),
      WithKey(SaveBase, "addressZip", Str("1234")) }

SaveRecord == SaveRequest(RecordBodies)

InitRecords ==
    /\ pc = "idle"
    /\ reqNo = 0
    /\ err = NoError
    /\ res = NoResponse
    /\ nodeEnv \in NodeEnvs
    /\ UploadIdle
    /\ SaveIdle
    /\ NormIdle
    /\ PanelIdle
    /\ FormIdle

NextRecords == SaveRecord \/ GetAllData \/ SearchData \/ GetDataById \/ ErrorHandler \/ EndRequest

SpecRecords == InitRecords /\ [][NextRecords]_vars

\* The upload panel: file selection, handleUpload with its progress timer,
\* the reset buttons.
InitPanel == HttpIdle /\ UploadIdle /\ SaveIdle /\ NormIdle /\ PanelIdle /\ FormIdle

NextPanel ==
    OnDrop \/ HandleUpload \/ ProgressInterval \/ FetchRejects \/ FetchResolves \/ ResponseJson
       \/ HandleReset

SpecPanel == InitPanel /\ [][NextPanel]_vars

\* The same with fairness: a fetch is settled and a response body is read in
\* the end, as the browser's network stack and event loop guarantee.
SpecPanelFair ==
    InitPanel /\ [][NextPanel]_vars /\ WF_vars(FetchRejects \/ FetchResolves) /\ WF_vars(ResponseJson)

\* the page is loaded again
Reload ==
    /\ formValues' = NoData
    /\ initialData' = NoData
    /\ isReadonly' = TRUE
    /\ isSaving' = FALSE
    /\ hasChanges' = FALSE
    /\ saveFetches' = <<>>
    /\ posts' = 0
    /\ savedSince' = FALSE
    /\ UNCHANGED <<panelVars, serverVars>>

\* The data form: the data an upload delivers, Edit, Cancel, the fields, the
\* two ways of submitting, the answers of the save route.
InitForm == HttpIdle /\ UploadIdle /\ SaveIdle /\ NormIdle /\ PanelIdle /\ FormIdle

NextForm ==
    UploadComplete \/ HandleEdit \/ HandleCancel \/ ChangeField \/ ClickSave \/ SubmitForm
       \/ SaveSettles \/ Reload

SpecForm == InitForm /\ [][NextForm]_vars

(***************************************************************************)
(* Properties of the upload route (SpecUpload)                             *)
(***************************************************************************)

\* C1: once an upload request that reached uploadAndExtract with a file has
\* finished, no file written to disk for it remains: neither the uploaded
\* file nor the JPEG converted from it.
C1_NoUploadedFileRemains ==
    (pc = "done" /\ reqFile # NoFile) => created \cap disk = {}

\* C2: a request with no file attached is answered 400 'No file uploaded';
\* neither the HEIC converter nor the OCR client is called for it, nothing
\* is written and the files on disk stay as they are.
C2_NoFileIs400 ==
    /\ [](req.field = "" =>
            /\ log = <<>> /\ apiCall = NoCall /\ created = {}
            /\ pc = "errorHandler" => err.statusCode = Num(400)
            /\ pc = "done" =>
                 res.status = 400 /\ res.message = "No file uploaded" /\ ~res.success)
    /\ [][(pc = "uploadAndExtract" /\ req.field = "") => disk' = disk]_vars

C2_Witness == pc = "done" /\ req.field = "" /\ reqNo = 2 /\ disk # {} /\ res.status = 400

\* C3: whenever anthropic.messages.create fails with an upstream HTTP error,
\* whatever its status, the upload request is answered 503.
C3_UpstreamErrorIs503 ==
    (pc = "done" /\ apiCall.kind = "http") => res.status = 503

\* the JSON objects that can be written with the reply tokens
JsonOfTokens ==
    {"{}"} \cup
    { "{" \o "\"surname\": \"Smith\"" \o rest \o "}" :
        rest \in { "", ", \"Gender\": \"female\"",
                   ", \"Gender\": \"female\", \"Gender\": \"female\"",
                   ", \"Gender\": \"female\", \"Gender\": \"female\", \"Gender\": \"female\"" } }

HasBraces(text) ==
    \E i \in 1..Len(text) : Ch(text, i) = "{" /\ \E j \in (i + 1)..Len(text) : Ch(text, j) = "}"

\* from the first '{' to the last '}'
BraceSpan(text) ==
    LET i == CHOOSE x \in 1..Len(text) : Ch(text, x) = "{" /\ \A y \in 1..(x - 1) : Ch(text, y) # "{"
        j == CHOOSE x \in 1..Len(text) : Ch(text, x) = "}" /\ \A y \in (x + 1)..Len(text) : Ch(text, y) # "}"
    IN  SubSeq(text, i, j)

UnusableReply(a) ==
    /\ a.kind = "reply"
    /\ \/ a.blockType # "text"
       \/ ~HasBraces(a.text)
       \/ BraceSpan(a.text) \notin JsonOfTokens

\* C4: a reply whose first block is not text, or whose text holds no '{'
\* followed by a '}', or whose span from the first '{' to the last '}' is not
\* JSON, fails the upload with status 500: the error made in the try block
\* leaves extractTextFromImage as it was made, and no data is returned.
C4_UnusableReplyIs500 ==
    (pc = "done" /\ UnusableReply(apiCall)) =>
        /\ res.status = 500 /\ ~res.success /\ res.data = EmptyObject
        /\ apiCall.blockType # "" =>
             /\ err.statusCode = Num(500) /\ err.status = Str("error")
             /\ err.message \in { "Invalid response format from OCR service",
                                  "Could not parse OCR response",
                                  "Failed to parse OCR JSON response" }

C4_Witness ==
    /\ pc = "done" /\ apiCall.kind = "reply" /\ apiCall.blockType = "text"
    /\ HasBraces(apiCall.text) /\ BraceSpan(apiCall.text) \notin JsonOfTokens
    /\ err.message = "Failed to parse OCR JSON response" /\ res.status = 500

\* Properties of normalizeExtractedData.
\* a value the normalisation keeps: a non-empty string or a non-zero number
HasValue(v) == (v.t = "string" /\ v.s # "") \/ (v.t = "number" /\ v.n # 0)

\* the i-th entry of the input has a value and one of the keys
KeyAt(i, keys) == normData[i].k \in keys /\ HasValue(normData[i].v)

\* the index of the last entry with a value and one of the keys, 0 for none
LastKeyAt(keys) ==
    IF \E i \in 1..Len(normData) : KeyAt(i, keys)
    THEN CHOOSE i \in 1..Len(normData) :
            KeyAt(i, keys) /\ \A j \in (i + 1)..Len(normData) : ~KeyAt(j, keys)
    ELSE 0

\* the text of a value with the white space at its two ends left out
TextOf(v) ==
    CASE v = Str("female") -> "female"
      [] v = Str(" Male ") -> "Male"
      [] v = Str(" 12345-6789") -> "12345-6789"
      [] v = Str("  ") -> ""
      [] v = Num(7) -> "7"
      [] OTHER -> "?"

\* C5 as the specification states it: for a non-empty value, key "surname"
\* yields the output field lastName and key "zip_code" yields the output
\* field addressZip.
C5_SurnameAndZipCodeRemapped ==
    normPc = "done" =>
        \A i \in 1..Len(normData) :
            /\ KeyAt(i, {"surname"}) => "lastName" \in DOMAIN normalized
            /\ KeyAt(i, {"zip_code"}) => "addressZip" \in DOMAIN normalized

\* C5, amended: for a non-empty value, the keys "surname" and "Last Name"
\* (matched without regard to letter case, white space runs read as '_')
\* yield the output field lastName, holding the trimmed text of the last such
\* entry, and the key "zipcode" yields the output field addressZip; the key
\* "zip_code" is not in the dictionary and yields no field.
C5_DictionaryKeysRemapped ==
    normPc = "done" =>
        /\ LastKeyAt({"surname", "Last Name"}) # 0 <=> "lastName" \in DOMAIN normalized
        /\ LastKeyAt({"surname", "Last Name"}) # 0 =>
                normalized.lastName = TextOf(normData[LastKeyAt({"surname", "Last Name"})].v)
        /\ LastKeyAt({"zipcode"}) # 0 <=> "addressZip" \in DOMAIN normalized
        /\ DOMAIN normalized \subseteq {"lastName", "addressZip", "sex", "middleInitial"}

C5_Witness ==
    /\ normPc = "done"
    /\ Len(normData) = 2
    /\ normData[1] = [k |-> "zip_code", v |-> Str(" 12345-6789")]
    /\ normData[2] = [k |-> "Last Name", v |-> Str(" Male ")]
    /\ DOMAIN normalized = {"lastName"}
    /\ normalized.lastName = "Male"

\* the first character of s that is not white space is an m, small or capital
StartsWithM(s) ==
    \E i \in 1..Len(s) : Ch(s, i) \in {"m", "M"} /\ \A j \in 1..(i - 1) : IsSpace(Ch(s, j))

\* C6: the sex field of normalizeExtractedData's output, when present, is
\* exactly "M" or "F": "M" when the trimmed value of the last sex or gender
\* entry starts with 'm' in any letter case, "F" otherwise; "gender": "female"
\* yields "F".
C6_SexIsMOrF ==
    normPc = "done" =>
        /\ LastKeyAt({"Gender", "sex"}) # 0 <=> "sex" \in DOMAIN normalized
        /\ "sex" \in DOMAIN normalized =>
              /\ normalized.sex \in {"M", "F"}
              /\ normalized.sex = "M" <=>
                    /\ normData[LastKeyAt({"Gender", "sex"})].v.t = "string"
                    /\ StartsWithM(normData[LastKeyAt({"Gender", "sex"})].v.s)

C6_Witness ==
    /\ normPc = "done"
    /\ normData = <<[k |-> "Gender", v |-> Str("female")]>>
    /\ normalized.sex = "F"

\* Properties of the save route.
\* the request now answered created a record
Persisted == \E i \in 1..Len(db) : db[i]["_id"] = Str(objectId(reqNo))

\* the body leaves the key out or gives it the empty string
MissingOrEmpty(b, k) == k \notin DOMAIN b \/ b[k] = Str("")

\* the body gives the key a string of more than cap characters
OverCap(b, k, cap) == k \in DOMAIN b /\ b[k].t = "string" /\ Len(b[k].s) > cap

BodyViolatesSchema(b) ==
    \/ MissingOrEmpty(b, "lastName") \/ MissingOrEmpty(b, "firstName")
    \/ OverCap(b, "id", 50) \/ OverCap(b, "lastName", 100) \/ OverCap(b, "firstName", 100)
    \/ OverCap(b, "middleInitial", 1) \/ OverCap(b, "addressStreet", 200)
    \/ OverCap(b, "addressCity", 100) \/ OverCap(b, "addressState", 50)
    \/ OverCap(b, "addressZip", 20) \/ OverCap(b, "sourceFileName", 255)
    \/ "confidence" \in DOMAIN b /\ b.confidence \notin {Num(0), Num(1)}
    \/ "sex" \in DOMAIN b /\ b.sex \notin {Str("M"), Str("F"), Str("Male"), Str("Female")}

\* C7: a save request whose body violates the schema (a name missing or
\* empty, a string over its cap, confidence not a number in [0,1], sex not in
\* the enum) is answered with 400 and persists nothing; no request answered
\* with an error creates a record.
C7_SchemaViolationIs400 ==
    pc = "done" =>
        /\ BodyViolatesSchema(body) => res.status = 400 /\ ~Persisted
        /\ res.status >= 400 => ~Persisted

\* the body is valid apart from what it gives for the key
OtherwiseValid(b, k) == [x \in (DOMAIN b) \ {k} |-> b[x]] = SaveBase

\* C8, its accepting half: an otherwise valid body whose sex is absent or one
\* of 'M', 'F', 'Male', 'Female' is persisted and answered with 201.
C8_SexEnumAccepted ==
    ( /\ pc = "done"
      /\ dbFault = "none"
      /\ OtherwiseValid(body, "sex")
      /\ Get(body, "sex") \in {Undefined, Str("M"), Str("F"), Str("Male"), Str("Female")} )
    => res.status = 201 /\ Persisted

\* every character of s is white space
AllSpace(s) == \A i \in 1..Len(s) : IsSpace(Ch(s, i))

\* the value is a string with at least one character
NonEmptyString(v) == v.t = "string" /\ Len(v.s) >= 1

\* C9: every persisted record has a non-empty lastName and a non-empty
\* firstName; a request whose lastName or firstName is white space only is
\* answered with 400 and stores nothing.
C9_PersistedNamesNonEmpty ==
    /\ \A i \in 1..Len(db) :
          /\ "lastName" \in DOMAIN db[i] /\ NonEmptyString(db[i].lastName)
          /\ "firstName" \in DOMAIN db[i] /\ NonEmptyString(db[i].firstName)
    /\ pc = "done" /\ (\E k \in {"lastName", "firstName"} :
                            k \in DOMAIN body /\ body[k].t = "string" /\ AllSpace(body[k].s))
          => res.status = 400 /\ ~Persisted

C9_Witness ==
    /\ pc = "done"
    /\ Get(body, "lastName") = Str("  ")
    /\ res.status = 400
    /\ Len(db) = 1
    /\ db[1].lastName = Str("Roe")

\* five digits, optionally followed by '-' and four digits
IsUsZip(s) ==
    /\ Len(s) = 5 \/ (Len(s) = 10 /\ Ch(s, 6) = "-")
    /\ \A i \in 1..Len(s) : i # 6 => IsDigit(Ch(s, i))

\* C10: the save route accepts the ZIP codes "12345" and "12345-6789" and
\* rejects "1234" with 400, storing nothing; the addressZip of every persisted
\* record, when present and not empty, is five digits optionally followed by
\* '-' and four digits.
C10_ZipValidated ==
    /\ \A i \in 1..Len(db) :
          "addressZip" \in DOMAIN db[i] /\ db[i].addressZip # Str("") =>
              db[i].addressZip.t = "string" /\ IsUsZip(db[i].addressZip.s)
    /\ pc = "done" /\ dbFault = "none" /\ OtherwiseValid(body, "addressZip") =>
          /\ Get(body, "addressZip") \in {Str("12345"), Str("12345-6789")} =>
                /\ res.status = 201
                /\ Persisted
                /\ db[Len(db)].addressZip = body.addressZip
          /\ Get(body, "addressZip") = Str("1234") => res.status = 400 /\ ~Persisted

C10_Witness ==
    /\ pc = "done"
    /\ Get(body, "addressZip") = Str("1234")
    /\ res.status = 400
    /\ Len(db) = 1
    /\ Get(db[1], "addressZip") = Str("12345-6789")

\* c is one letter of the alphabet, small or capital
IsLetter(c) == Len(c) = 1 /\ (HasChar(UpperLetters, c) \/ HasChar(LowerLetters, c))

\* every persisted middleInitial that is present and not empty is one letter
PersistedInitialsAreLetters ==
    \A i \in 1..Len(db) :
        "middleInitial" \in DOMAIN db[i] /\ db[i].middleInitial # Str("") =>
            db[i].middleInitial.t = "string" /\ IsLetter(db[i].middleInitial.s)

\* the body, valid apart from it, gives a middleInitial of more than one character
LongInitial ==
    /\ OtherwiseValid(body, "middleInitial")
    /\ Get(body, "middleInitial").t = "string"
    /\ Len(Get(body, "middleInitial").s) > 1

\* the body, valid apart from it, gives a middleInitial of one character, not a letter
NonLetterInitial ==
    /\ OtherwiseValid(body, "middleInitial")
    /\ Get(body, "middleInitial").t = "string"
    /\ Len(Get(body, "middleInitial").s) = 1
    /\ ~IsLetter(Get(body, "middleInitial").s)

\* C11 as the specification states it: every persisted middleInitial, when
\* present and not empty, is exactly one letter; a save whose middleInitial
\* is a single character that is not a letter, or is longer than one
\* character, is answered with 400 and not persisted.
C11_NonLetterInitialRejected ==
    /\ PersistedInitialsAreLetters
    /\ pc = "done" /\ (LongInitial \/ NonLetterInitial) => res.status = 400 /\ ~Persisted

\* C11, amended: every persisted middleInitial, when present and not empty,
\* is exactly one letter; a save whose middleInitial is longer than one
\* character, or is a single character that is neither a letter nor white
\* space, is answered with 400 and not persisted; a single white-space
\* character is trimmed to the empty string and the record is stored.
C11_InitialOneLetterOrEmpty ==
    /\ PersistedInitialsAreLetters
    /\ pc = "done" /\ (LongInitial \/ (NonLetterInitial /\ ~IsSpace(body.middleInitial.s)))
          => res.status = 400 /\ ~Persisted
    /\ pc = "done" /\ dbFault = "none" /\ NonLetterInitial /\ IsSpace(body.middleInitial.s)
          => res.status = 201 /\ Persisted /\ db[Len(db)].middleInitial = Str("")

C11_Witness ==
    /\ pc = "done"
    /\ Get(body, "middleInitial") = Str("7")
    /\ res.status = 400
    /\ Len(db) = 1
    /\ Get(db[1], "middleInitial") = Str("Q")

\* C12: a record created by the save endpoint has its isManuallyEdited flag
\* false at creation, as stored and as reported in the metadata of the save
\* response.
C12_NotEditedAtCreation ==
    pc = "done" /\ res.status = 201 =>
        /\ res.data.metadata.isManuallyEdited = Bool(FALSE)
        /\ db[Len(db)].isManuallyEdited = Bool(FALSE)

(***************************************************************************)
(* Properties of the save router (SpecRecords)                             *)
(***************************************************************************)
IdentityFields ==
    { "id", "lastName", "firstName", "middleInitial", "addressStreet", "addressCity",
      "addressState", "addressZip", "sex", "dob", "confidence" }

\* getDataById has answered 200 to the id that a save returned
FetchedSaved ==
    /\ pc = "done"
    /\ query.route = "getDataById"
    /\ res.status = 200
    /\ query.id.s \in DOMAIN reported

\* what the schema's setters make of a submitted value, and what a field
\* that was not submitted reads as
StoredValue(b, k) ==
    IF k \notin DOMAIN b THEN (IF k = "confidence" THEN Null ELSE Undefined)
    ELSE IF b[k].t # "string" THEN b[k]
    ELSE IF k \in {"middleInitial", "sex"} THEN Str(ToUpperCase(Trim(b[k].s)))
    ELSE Str(Trim(b[k].s))

\* C13 as stated: getDataById with the id a save returned gives, for each
\* identity field of the accepted body, the value the body held.
C13_RoundTripSubmitted ==
    FetchedSaved =>
        \A k \in IdentityFields \cap DOMAIN reported[query.id.s].body :
            res.data.extractedData[k] = reported[query.id.s].body[k]

\* C13: getDataById with the id a save returned gives, for each identity
\* field, the value that save stored and reported: the submitted value with
\* surrounding white space trimmed and middleInitial and sex in upper case,
\* null for a confidence not submitted, nothing for another field not
\* submitted; whatever was saved in between.
C13_RoundTripStored ==
    FetchedSaved =>
        /\ res.data.extractedData = reported[query.id.s].extractedData
        /\ \A k \in IdentityFields :
              res.data.extractedData[k] = StoredValue(reported[query.id.s].body, k)

\* the first of two records, saved as " Roe ", is fetched after the second save
C13_Witness ==
    /\ FetchedSaved
    /\ Len(db) = 2
    /\ query.id = db[1]["_id"]
    /\ reported[query.id.s].body = WithKey(SaveBase, "lastName", Str(" Roe "))
    /\ res.data.extractedData["lastName"] = Str("Roe")
    /\ db[2]["lastName"] = Str("Doe")

IsHex(c) == IsDigit(c) \/ c \in {"a", "b", "c", "d", "e", "f", "A", "B", "C", "D", "E", "F"}

WellFormedId(id) == Len(id) = 24 /\ \A i \in 1..Len(id) : IsHex(Ch(id, i))

\* the stored records the id names
RecordsOfId(id) == { i \in 1..Len(db) : ToLowerCase(db[i]["_id"].s) = ToLowerCase(id) }

\* C14: getDataById answers an id that is not 24 hexadecimal characters
\* with 400 without a call to the database, a well-formed id of no record
\* with 404, and a well-formed id of a record with 200 and that record.
C14_GetByIdOutcomes ==
    query.route = "getDataById" =>
        LET id == query.id.s IN
        /\ ~WellFormedId(id) => log = <<>> /\ (pc = "done" => res.status = 400)
        /\ WellFormedId(id) /\ RecordsOfId(id) = {} => (pc = "done" => res.status = 404)
        /\ WellFormedId(id) /\ RecordsOfId(id) # {} =>
              (pc = "done" =>
                  /\ res.status = 200
                  /\ \E i \in RecordsOfId(id) :
                        /\ res.data.id = db[i]["_id"]
                        /\ \A k \in IdentityFields : res.data.extractedData[k] = Get(db[i], k))

\* "xyz" is answered 400 while a record is stored
C14_Witness ==
    /\ pc = "done"
    /\ query.route = "getDataById"
    /\ query.id = Str("xyz")
    /\ res.status = 400
    /\ log = <<>>
    /\ Len(db) >= 1

\* the search term is missing or, trimmed, shorter than 2 characters
ShortTerm(v) == v.t # "string" \/ Len(Trim(v.s)) < 2

LengthMessage == "Search term must be at least 2 characters long"

\* C15: a search whose term is missing or, trimmed, shorter than 2
\* characters is answered 400 without a call to the database; a term of 2 or
\* more characters reaches the database and is never answered with the
\* error about its length.
C15_ShortTermIs400 ==
    query.route = "searchData" =>
        /\ ShortTerm(query.q) =>
              /\ log = <<>>
              /\ pc = "errorHandler" => err.statusCode = Num(400)
              /\ pc = "done" => res.status = 400 /\ res.message = LengthMessage
        /\ ~ShortTerm(query.q) =>
              /\ log # <<>>
              /\ pc = "errorHandler" => err.message # LengthMessage
              /\ pc = "done" => res.message # LengthMessage

\* "a ", one character once trimmed, is answered 400 while a record is stored
C15_Witness ==
    /\ pc = "done"
    /\ query.route = "searchData"
    /\ query.q = Str("a ")
    /\ res.status = 400
    /\ log = <<>>
    /\ Len(db) >= 1

\* the document holds the term in its id, firstName or lastName, letter case aside
ContainsTerm(doc, term) ==
    \E k \in {"id", "firstName", "lastName"} :
       /\ Get(doc, k).t = "string"
       /\ Includes(ToLowerCase(Get(doc, k).s), ToLowerCase(term))

\* C16: a search for a term of at least 2 characters, whatever its
\* characters, is answered with exactly the stored records that hold the
\* trimmed term in their id, firstName or lastName, letter case aside, the
\* latest first.
C16_SearchIsLiteralSubstring ==
    pc = "done" /\ query.route = "searchData" /\ ~ShortTerm(query.q) =>
        /\ res.status = 200
        /\ { res.data[i].id : i \in 1..Len(res.data) }
              = { db[i]["_id"] : i \in { j \in 1..Len(db) : ContainsTerm(db[j], Trim(query.q.s)) } }
        /\ \A i, j \in 1..Len(res.data) :
              i < j => res.data[i].metadata["extractedAt"].n > res.data[j].metadata["extractedAt"].n

\* getAllData has answered 200
Listed == pc = "done" /\ query.route = "getAllData" /\ res.status = 200

\* the effective page and limit of the current request
EffectivePage == OrDefault(parseInt(query.page), 1)

EffectiveLimit == OrDefault(parseInt(query.limit), 10)

\* a stored record is older than all the records of the returned page
RecordsBeyondPage ==
    /\ res.data # <<>>
    /\ \E i \in 1..Len(db) :
          \A j \in 1..Len(res.data) :
             db[i]["extractedAt"].n < res.data[j].metadata["extractedAt"].n

\* C17: in every getAllData response hasMore is true exactly when
\* page * limit < total for the effective page and limit, and exactly when
\* records exist beyond the returned page.
C17_HasMoreIffRecordsBeyond ==
    Listed =>
        /\ res.pagination.hasMore = (EffectivePage * EffectiveLimit < Len(db))
        /\ res.pagination.hasMore = RecordsBeyondPage

\* the stored records, the latest first: the records are stored in the
\* order of their extraction times
LatestFirst == [i \in 1..Len(db) |-> db[Len(db) + 1 - i]]

\* C18: getAllData with effective page p and limit l answers with the
\* records at positions (p-1)*l+1 to p*l of the stored records, the latest
\* first, never more than l of them, with totalRecords the number of stored
\* records and totalPages = ceil(total / l); a missing, non-numeric or zero
\* page counts as 1 and such a limit as 10.
C18_PageOfRecords ==
    pc = "done" /\ query.route = "getAllData" =>
        LET p == EffectivePage
            l == EffectiveLimit
            positions == { i \in 1..Len(db) : (p - 1) * l + 1 <= i /\ i <= p * l }
        IN  /\ query.page \in {Undefined, Str("abc"), Str("0")} => p = 1
            /\ query.limit \in {Undefined, Str("abc"), Str("0")} => l = 10
            /\ res.status = 200
            /\ res.pagination.currentPage = p
            /\ Len(res.data) <= l
            /\ Len(res.data) = Cardinality(positions)
            /\ \A k \in 1..Len(res.data) :
                  /\ (p - 1) * l + k \in positions
                  /\ res.data[k].id = LatestFirst[(p - 1) * l + k]["_id"]
                  /\ \A f \in IdentityFields :
                        res.data[k].extractedData[f] = Get(LatestFirst[(p - 1) * l + k], f)
            /\ res.pagination.totalRecords = Len(db)
            /\ res.pagination.totalPages * l >= Len(db)
            /\ (res.pagination.totalPages - 1) * l < Len(db)

\* C19: the stored records only grow. A GET request of any of the three
\* routes and a failed save leave the collection as it is, a save answered
\* 201 appends exactly one record with a new _id, and no step removes or
\* changes a record that is stored.
C19_RecordsOnlyGrow ==
    [][ /\ Len(db') >= Len(db)
        /\ SubSeq(db', 1, Len(db)) = db
        /\ (pc = "idle" /\ query'.route # "") => db' = db
        /\ (pc = "idle" /\ pc' = "errorHandler") => db' = db
        /\ (pc = "idle" /\ pc' = "done" /\ res'.status = 201) =>
              /\ Len(db') = Len(db) + 1
              /\ \A i \in 1..Len(db) : db[i]["_id"] # db'[Len(db')]["_id"]
        /\ db' # db => (pc = "idle" /\ pc' = "done" /\ res'.status = 201)
      ]_vars

\* both records of two saves are listed, the first one as it was saved
C19_Witness ==
    /\ Listed
    /\ Len(db) = 2
    /\ Len(res.data) = 2
    /\ res.data[2].id = Str(objectId(1))
    /\ db[1]["_id"] = Str(objectId(1))

\* C20: the body of an error response holds the stack and the details only
\* in development mode; in any other mode errorHandler's body holds
\* success = false and error.message alone.
C20_StackOnlyInDevelopment ==
    pc = "done" /\ ~res.success =>
        /\ nodeEnv # "development" => res.errorKeys = {"message"}
        /\ res.errorKeys \cap {"stack", "details"} # {} => nodeEnv = "development"

\* an unhandled error is answered 500 in production with the message alone
C20_Witness ==
    /\ pc = "done"
    /\ nodeEnv = "production"
    /\ res.status = 500
    /\ err.statusCode = Undefined
    /\ res.errorKeys = {"message"}

(***************************************************************************)
(* Properties of the save route's database errors (SpecSave)               *)
(***************************************************************************)

\* C21: when the insert of a body that passed the request schema fails in
\* the database layer, the answer is 400 for a validation error of the
\* model, 409 for a duplicate key, 400 for a cast error and 500 for any
\* other error of the database; none of them is answered 201.
C21_DatabaseErrorStatuses ==
    pc = "done" /\ idDataSchema(body).success =>
        /\ dbFault = "duplicate" => res.status = 409
        /\ dbFault = "cast" => res.status = 400
        /\ dbFault = "other" => res.status = 500
        /\ dbFault = "none" /\ ~Persisted => res.status = 400
        /\ ~Persisted => res.status # 201

(***************************************************************************)
(* Properties of the upload route's file types (SpecUpload)                *)
(***************************************************************************)
AllowList == {"image/jpeg", "image/jpg", "image/png", "application/pdf", "image/heic"}

\* the hosted model was asked during the current request
ModelAsked ==
    apiCall # NoCall \/ \E i \in 1..Len(log) : log[i] = "anthropic.messages.create"

\* C22: an upload whose MIME type is not in the allow-list is rejected
\* before uploadAndExtract runs: the OCR client is not called for it and the
\* answer is 400.
C22_DisallowedTypeIs400 ==
    req.field = "idImage" /\ req.mimetype \notin AllowList =>
        /\ pc # "uploadAndExtract"
        /\ ~ModelAsked
        /\ log = <<>>
        /\ pc = "done" => res.status = 400

\* the extension of the stored path, in lower case
StoredExtension ==
    LET lower == ToLowerCase(reqFile.path) IN
    SubSeq(lower, LastIndexOf(lower, ".") + 1, Len(lower))

\* an upload was stored under a path that the OCR client has no media type for
StoredUnsupported ==
    /\ req.mimetype \in AllowList
    /\ reqFile # NoFile
    /\ StoredExtension \notin {"jpg", "jpeg", "png", "webp"}

UnsupportedAnswer ==
    /\ ~ModelAsked
    /\ pc = "errorHandler" =>
          err.statusCode = Num(400) /\ err.message = "Unsupported file format for OCR"
    /\ pc = "done" =>
          /\ res.status = 400
          /\ res.message = "Unsupported file format for OCR"
          /\ reqFile.path \notin disk

\* C26 as stated: every allow-listed upload stored under an extension other
\* than jpg, jpeg, png or webp is kept from the hosted model and answered
\* 400 'Unsupported file format for OCR', its file deleted.
C26_UnsupportedExtensionIs400 == StoredUnsupported => UnsupportedAnswer

\* C26: an allow-listed upload of a MIME type other than image/heic that is
\* stored under an extension other than jpg, jpeg, png or webp is never
\* sent to the hosted model: extractTextFromImage fails with 400
\* 'Unsupported file format for OCR', the answer is 400 and the stored file
\* is deleted.
C26_UnsupportedNonHeicIs400 ==
    StoredUnsupported /\ req.mimetype # "image/heic" => UnsupportedAnswer

\* a PDF stored as .pdf has been answered 400 and is gone from disk
C26_Witness ==
    /\ pc = "done"
    /\ StoredUnsupported
    /\ req.mimetype = "application/pdf"
    /\ StoredExtension = "pdf"
    /\ res.status = 400
    /\ reqFile.path \notin disk
    /\ log # <<>>

(***************************************************************************)
(* Properties of the per-field cleanup (SpecNorm)                          *)
(***************************************************************************)
\* the input keys of the model that the dictionary maps to an output field
KeysOf(field) ==
    CASE field = "lastName" -> {"surname", "Last Name"}
      [] field = "addressZip" -> {"zipcode"}
      [] field = "sex" -> {"Gender", "sex"}
      [] field = "middleInitial" -> {"middle name"}
      [] OTHER -> {}

\* the trimmed string form of the input value an output field was made of
InputText(field) ==
    IF LastKeyAt(KeysOf(field)) = 0 THEN "?" ELSE TextOf(normData[LastKeyAt(KeysOf(field))].v)

OnlyDigits(s) == \A i \in 1..Len(s) : Ch(s, i) \in {"0", "1", "2", "3", "4", "5", "6", "7", "8", "9"}

UpperFirst(text) == IF text = "" THEN "" ELSE ToUpperCase(SubSeq(text, 1, 1))

ZipAndInitialCleaned ==
    /\ "addressZip" \in DOMAIN normalized =>
          OnlyDigits(normalized.addressZip) /\ Len(normalized.addressZip) <= 5
    /\ "middleInitial" \in DOMAIN normalized =>
          /\ Len(normalized.middleInitial) <= 1
          /\ normalized.middleInitial = UpperFirst(InputText("middleInitial"))

\* C25 as stated: addressZip is digits only and at most 5 characters,
\* middleInitial at most 1 character, the upper-cased first character of the
\* trimmed input value, and every other mapped field is the trimmed string
\* form of its input value.
C25_OtherFieldsTrimmedOnly ==
    normPc = "done" =>
        /\ ZipAndInitialCleaned
        /\ \A field \in (DOMAIN normalized) \ {"addressZip", "middleInitial"} :
              normalized[field] = InputText(field)

\* C25: addressZip is digits only and at most 5 characters, middleInitial
\* at most 1 character, the first character of the upper-cased trimmed input
\* value, sex is 'M' or 'F', and every other mapped field is the trimmed
\* string form of its input value.
C25_FieldsCleaned ==
    normPc = "done" =>
        /\ ZipAndInitialCleaned
        /\ "sex" \in DOMAIN normalized => normalized.sex \in {"M", "F"}
        /\ \A field \in (DOMAIN normalized) \ {"addressZip", "middleInitial", "sex"} :
              normalized[field] = InputText(field)

\* " 12345-6789" as the ZIP code and " Male " as the middle name
C25_Witness ==
    /\ normPc = "done"
    /\ normData = << [k |-> "zipcode", v |-> Str(" 12345-6789")],
                     [k |-> "middle name", v |-> Str(" Male ")] >>
    /\ normalized.addressZip = "12345"
    /\ normalized.middleInitial = "M"

\* Object.keys(o) with the values: the entries of an object, in some order
RECURSIVE EntriesOf(_)
EntriesOf(o) ==
    IF DOMAIN o = {} THEN <<>>
    ELSE LET key == CHOOSE k \in DOMAIN o : TRUE IN
         <<[k |-> key, v |-> Str(o[key])]>> \o EntriesOf([x \in (DOMAIN o) \ {key} |-> o[x]])

\* C27: normalizeExtractedData applied to its own output returns an equal
\* object: every canonical field name it emits is accepted as an input key
\* and every cleaned value is a fixed point of the cleanup.
C27_NormalizeIdempotent ==
    normPc = "done" => normalizeExtractedData(EntriesOf(normalized)) = normalized

(***************************************************************************)
(* Properties of the upload panel (SpecPanel, SpecPanelFair)               *)
(***************************************************************************)

\* a file that is larger than 10 MB or whose type is not one of the accepted types
InvalidPick(file) == file.size > MAX_FILE_SIZE \/ file.type \notin DOMAIN ACCEPTED_FILE_TYPES

\* the file offered last was not taken: it is not the selected file and no
\* POST carries it
NotTaken ==
    /\ selectedFile # dropped
    /\ \A n \in 1..Len(uploads) : uploads[n].file # dropped

\* C23: a file that is larger than 10 MB or not of an accepted type never
\* leads to an upload: it is not stored as the selected file, no POST is
\* issued for it, and the error callback was called with a message about it.
C23_InvalidFileRejectedWithMessage ==
    dropped # NoPick /\ InvalidPick(dropped) => NotTaken /\ dropError # ""

\* C28: however the callbacks of the progress timers interleave with the
\* completions of the uploads, a timer left set by an earlier upload whose
\* fetch was rejected included, the progress is within 0..100, is at most 90
\* while the status is 'uploading', and is 100 whenever the status is 'success'.
C28_ProgressMatchesStatus ==
    /\ uploadProgress \in 0..100
    /\ uploadStatus = "uploading" => uploadProgress <= 90
    /\ uploadStatus = "success" => uploadProgress = 100

\* the uploads that were started and have not left 'uploading'
InFlight == { n \in 1..Len(uploads) : uploads[n].pc # "done" }

\* upload, reset and file selection are unavailable: the Extract Text button
\* is disabled, the reset buttons are not rendered, and the dropzone is not
\* rendered or is disabled
ControlsUnavailable ==
    /\ uploadDisabled(uploadStatus)
    /\ ~resetRendered
    /\ selectedFile # NoPick \/ dropzoneDisabled(uploadStatus)

\* the callbacks of upload n fit its position: none while it is in flight,
\* and afterwards either onUploadComplete once, with data, and never onError,
\* or onError once and never onUploadComplete
CallbacksFit(n) ==
    IF uploads[n].pc # "done"
    THEN uploads[n].outcome = "" /\ uploads[n].onUploadComplete = 0 /\ uploads[n].onError = 0
    ELSE \/ /\ uploads[n].outcome = "success"
            /\ uploads[n].onUploadComplete = 1
            /\ uploads[n].onError = 0
            /\ uploads[n].data \in ExtractedChoices
         \/ /\ uploads[n].outcome = "error"
            /\ uploads[n].onError = 1
            /\ uploads[n].onUploadComplete = 0

OneUploadInFlight ==
    /\ Cardinality(InFlight) <= 1
    /\ InFlight # {} <=> uploadStatus = "uploading"
    /\ InFlight # {} => ControlsUnavailable
    /\ \A n \in 1..Len(uploads) : CallbacksFit(n)

\* an upload that ends takes the status from 'uploading' to its outcome
LeavesUploading ==
    \A n \in 1..Len(uploads) :
       uploads[n].pc # "done" /\ uploads'[n].pc = "done" =>
           uploadStatus = "uploading" /\ uploadStatus' = uploads'[n].outcome

\* C29: at most one upload is in flight at a time (upload, reset and file
\* selection are unavailable while the status is 'uploading'), and every
\* upload that was started leaves 'uploading' into exactly one of 'success',
\* with onUploadComplete called once with the extracted data and onError
\* never, or 'error', with onError called once and onUploadComplete never.
C29_OneUploadOneOutcome ==
    /\ []OneUploadInFlight
    /\ [][LeavesUploading]_vars
    /\ \A n \in 1..MaxUploads :
          (Len(uploads) >= n /\ uploads[n].pc # "done") ~> (Len(uploads) >= n /\ uploads[n].pc = "done")

\* one upload has ended in 'success' and another in 'error'
C29_Witness ==
    \E n, m \in 1..Len(uploads) :
       /\ uploads[n].pc = "done" /\ uploads[n].outcome = "success"
       /\ uploads[m].pc = "done" /\ uploads[m].outcome = "error"

(***************************************************************************)
(* Properties of the data form (SpecForm)                                  *)
(***************************************************************************)

\* C24: after a successful save the form is locked again (read-only), and no
\* field value changes until an upload delivers new extracted data or the
\* page is loaded again.
C24_LockedAfterSave ==
    [][/\ ~savedSince /\ savedSince' => isReadonly'
       /\ savedSince /\ savedSince' => formValues' = formValues]_vars

\* C30: a POST to /api/id/save is issued only when the form is in edit mode
\* (not read-only), has unsaved changes, passes the form schema and no save
\* is in flight, whichever way the form is submitted: by the Save button or
\* by submission of the form element.
C30_PostOnlyWhenEditable ==
    [][posts' = posts + 1 =>
          ~isReadonly /\ hasChanges /\ formDataSchema(formValues) /\ saveFetches = <<>>]_vars

====
